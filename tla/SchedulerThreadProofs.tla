------------------------ MODULE SchedulerThreadProofs -----------------------
(***************************************************************************)
(* The inductive invariant of module Scheduler, and that the steps of the  *)
(* application threads keep it.                                            *)
(***************************************************************************)
EXTENDS Scheduler, KernelProofs, TLAPS

-----------------------------------------------------------------------------
(* The inductive invariant *)

\* A thread between rt_thread_startup and the last section of
\* rt_thread_resume: suspended, but waiting for nothing that could wake it.
InFlight(kk, t) == kk.stat[t] = "suspend" /\ ~Linked(kk, t) /\ t \notin kk.timer

\* A thread the idle thread is about to free.
Reaped(kk, t) == kk.stat[t] = "close" /\ ~Linked(kk, t)

ResumeOp == {"resume_unlink", "resume_insert"}

\* Whoever keeps a thread in a local variable is alone with it, and nothing
\* an interrupt does reaches that thread.
ArgInv ==
    /\ \A a \in Thread : pc[a].op \in ResumeOp =>
           pc[a].arg \in Thread /\ InFlight(k, pc[a].arg)
    /\ pc[Idle].op = "idle_free" => pc[Idle].arg \in Thread /\ Reaped(k, pc[Idle].arg)
    /\ \A a \in Actor : pc[a].arg # NoThread =>
           \/ a \in Thread /\ pc[a].op \in ResumeOp
           \/ a = Idle /\ pc[a].op = "idle_free"
    /\ \A a, b \in Thread : a # b /\ pc[a].arg # NoThread => pc[b].arg # pc[a].arg

\* The current thread is ready, or on its way into rt_schedule with the
\* scheduler unlocked.
CurrentInv ==
    /\ k.current \in Thread
    /\ \/ k.stat[k.current] = "ready"
       \/ /\ k.lock_nest = 0
          /\ \/ /\ k.stat[k.current] = "suspend"
                /\ pc[k.current].op \in {"block_sched", "sleep_sched"}
             \/ k.stat[k.current] = "close" /\ pc[k.current].op = "exit_sched"

IdleInv ==
    /\ k.stat[Idle] = "ready"
    /\ pc[Idle].op = "idle_lock" => On(k, Defunct) # {}

IInv ==
    /\ TypeOK
    /\ KernelInv(k)
    /\ ArgInv
    /\ CurrentInv
    /\ IdleInv
    /\ HighestRuns

-----------------------------------------------------------------------------
(* What the steps have in common *)

\* Where a step takes one actor.
LEMMA GotoEffect ==
    ASSUME TypeOK, NEW a \in Actor, NEW o, NEW t \in Thread \cup {NoThread}, Goto(a, o, t),
           \/ a \in Thread /\ o \in ThreadOp
           \/ a = "tick" /\ o \in TickOp
           \/ a = "irq" /\ o \in IrqOp
    PROVE  /\ pc' \in [Actor -> [op : ThreadOp \cup TickOp \cup IrqOp, arg : Thread \cup {NoThread}]]
           /\ \A b \in Thread : pc'[b].op \in ThreadOp
           /\ pc'["tick"].op \in TickOp /\ pc'["irq"].op \in IrqOp
           /\ pc'[a].op = o /\ pc'[a].arg = t
           /\ \A b \in Actor \ {a} : pc'[b] = pc[b]
<1>1. pc' = [pc EXCEPT ![a] = [op |-> o, arg |-> t]]
  BY DEF Goto
<1>2. /\ pc'[a] = [op |-> o, arg |-> t] /\ \A b \in Actor \ {a} : pc'[b] = pc[b]
  BY <1>1 DEF TypeOK
<1>3. o \in ThreadOp \cup TickOp \cup IrqOp
  OBVIOUS
<1>4. pc' \in [Actor -> [op : ThreadOp \cup TickOp \cup IrqOp, arg : Thread \cup {NoThread}]]
  BY <1>1, <1>3 DEF TypeOK
<1>5. "tick" \in Actor /\ "irq" \in Actor /\ \A b \in Thread : b \in Actor
  BY DEF Actor, Isr
<1>6. "tick" \notin Thread /\ "irq" \notin Thread
  BY SchedulerAssumption
<1>7. \A b \in Thread : pc'[b].op \in ThreadOp
  <2> TAKE b \in Thread
  <2>1. CASE b = a
    BY <1>2, <1>6, <2>1
  <2>2. CASE b # a
    BY <1>2, <1>5, <2>2 DEF TypeOK
  <2>3. QED BY <2>1, <2>2
<1>8. pc'["tick"].op \in TickOp
  <2>1. CASE a = "tick"
    BY <1>2, <1>6, <2>1
  <2>2. CASE a # "tick"
    BY <1>2, <1>5, <2>2 DEF TypeOK
  <2>3. QED BY <2>1, <2>2
<1>9. pc'["irq"].op \in IrqOp
  <2>1. CASE a = "irq"
    BY <1>2, <1>6, <2>1
  <2>2. CASE a # "irq"
    BY <1>2, <1>5, <2>2 DEF TypeOK
  <2>3. QED BY <2>1, <2>2
<1>10. QED BY <1>2, <1>4, <1>7, <1>8, <1>9

\* A thread executes only when no interrupt handler does.
LEMMA RunningThread ==
    ASSUME NEW a \in Thread, Running = a
    PROVE  a = k.current /\ a \in Actor /\ pc["irq"].op = "off" /\ pc["tick"].op = "off"
  BY SchedulerAssumption DEF Running, Actor

\* A thread in a ring, with a timer, or not suspended or closed, is in
\* nobody's local variable.
LEMMA NotHeld ==
    ASSUME IInv, NEW y \in Thread,
           k.stat[y] \in {"none", "init", "ready"} \/ Linked(k, y) \/ y \in k.timer
    PROVE  \A a \in Actor : pc[a].arg # y
<1>1. y # NoThread
  BY KernelAssumption
<1>2. y \in k.timer => k.stat[y] = "suspend"
  BY DEF IInv, KernelInv, TimersOfSuspended
<1>3. QED BY <1>1, <1>2 DEF IInv, ArgInv, InFlight, Reaped

\* The step changes thread y and no other.
Touch(y) ==
    /\ \A x \in Thread \ {y} : k'.stat[x] = k.stat[x]
    /\ k'.timer \subseteq k.timer \cup {y}
    /\ \A l \in ListId : On(k', l) \subseteq On(k, l) \cup {y}

\* The step gives no actor a thread to keep.
Quiet ==
    \A a \in Actor :
        \/ pc'[a] = pc[a]
        \/ pc'[a].arg = NoThread /\ pc'[a].op \notin ResumeOp \cup {"idle_lock", "idle_free"}

\* What a step leaves alone of a thread it does not touch.
LEMMA UntouchedKept ==
    ASSUME NEW y \in Thread, Touch(y), NEW x \in Thread, x # y
    PROVE  /\ InFlight(k, x) => InFlight(k', x)
           /\ Reaped(k, x) => Reaped(k', x)
  BY DEF Touch, InFlight, Reaped, Linked

\* Most steps touch one thread that nobody else holds.
LEMMA RestKept ==
    ASSUME IInv, NEW y \in Thread, Touch(y), Quiet,
           \A a \in Thread : pc[a].arg # y \/ pc'[a].arg = NoThread,
           On(k, Defunct) \subseteq On(k', Defunct), k'.stat[Idle] = "ready"
    PROVE  ArgInv' /\ IdleInv'
<1>1. Idle \in Thread /\ \A a \in Thread : a \in Actor
  BY KernelAssumption DEF Actor
<1>2. ASSUME NEW a \in Thread, pc'[a].op \in ResumeOp
      PROVE  pc'[a].arg \in Thread /\ InFlight(k', pc'[a].arg)
  <2>1. pc'[a] = pc[a] /\ pc[a].arg \in Thread /\ InFlight(k, pc[a].arg)
    BY <1>1, <1>2 DEF Quiet, IInv, ArgInv
  <2>2. pc[a].arg # y
    BY <2>1, KernelAssumption
  <2>3. QED BY <2>1, <2>2, UntouchedKept
<1>3. ASSUME pc'[Idle].op = "idle_free"
      PROVE  pc'[Idle].arg \in Thread /\ Reaped(k', pc'[Idle].arg)
  <2>1. pc'[Idle] = pc[Idle] /\ pc[Idle].arg \in Thread /\ Reaped(k, pc[Idle].arg)
    BY <1>1, <1>3 DEF Quiet, IInv, ArgInv
  <2>2. pc[Idle].arg # y
    BY <1>1, <2>1, KernelAssumption
  <2>3. QED BY <2>1, <2>2, UntouchedKept
<1>4. ASSUME NEW a \in Actor, pc'[a].arg # NoThread
      PROVE  \/ a \in Thread /\ pc'[a].op \in ResumeOp
             \/ a = Idle /\ pc'[a].op = "idle_free"
  BY <1>4 DEF Quiet, IInv, ArgInv
<1>5. ASSUME NEW a \in Thread, NEW b \in Thread, a # b, pc'[a].arg # NoThread
      PROVE  pc'[b].arg # pc'[a].arg
  BY <1>1, <1>5 DEF Quiet, IInv, ArgInv
<1>6. ArgInv'
  BY <1>2, <1>3, <1>4, <1>5 DEF ArgInv
<1>7. IdleInv'
  BY <1>1 DEF IInv, IdleInv, Quiet
<1>8. QED BY <1>6, <1>7

\* The current thread goes on if the step is somebody else's.
LEMMA CurrentKept ==
    ASSUME IInv, k'.current = k.current, k'.lock_nest = k.lock_nest,
           k'.stat[k.current] = k.stat[k.current] \/ k'.stat[k.current] = "ready",
           pc'[k.current] = pc[k.current]
    PROVE  CurrentInv'
  BY DEF IInv, CurrentInv

\* After rt_schedule has chosen, the current thread is ready and the highest.
LEMMA ScheduleStep ==
    ASSUME IInv, NEW j, KernelInv(j), j.stat[Idle] = "ready", k' = rt_schedule(j),
           j.current = k.current, j.lock_nest = k.lock_nest,
           k.lock_nest > 0 => j.stat[k.current] = "ready"
    PROVE  /\ KernelInv(k') /\ CurrentInv' /\ HighestRuns'
           /\ k'.stat = j.stat /\ k'.timer = j.timer /\ k'.lists = j.lists
<1>1. /\ KernelInv(k') /\ HighestReady(j) \in Thread /\ j.stat[HighestReady(j)] = "ready"
      /\ HighestReady(k') = HighestReady(j)
      /\ k'.current = IF j.lock_nest = 0 THEN HighestReady(j) ELSE j.current
      /\ k'.lists = j.lists /\ k'.stat = j.stat /\ k'.timer = j.timer
      /\ k'.lock_nest = j.lock_nest
  BY KernelAssumption, ScheduleInv
<1>2. k.lock_nest \in Nat /\ k.current \in Thread
  BY DEF IInv, KernelInv, KernelState, CurrentInv
<1>3. CurrentInv'
  BY <1>1, <1>2 DEF CurrentInv
<1>4. HighestRuns'
  BY <1>1, <1>2, KernelAssumption DEF HighestRuns
<1>5. QED BY <1>1, <1>3, <1>4

-----------------------------------------------------------------------------
(* One lemma per action *)

\* The facts about the running thread that every call starts from.
LEMMA FreeFacts ==
    ASSUME IInv, NEW a \in Thread, Free(a)
    PROVE  /\ a = k.current /\ a # Idle /\ a \in Actor /\ k.stat[a] = "ready"
           /\ pc[a].op = "run" /\ pc["irq"].op = "off" /\ pc["tick"].op = "off"
           /\ \A b \in Actor : pc[b].arg # a
<1>1. Running = a /\ a # Idle /\ pc[a].op = "run"
  BY DEF Free, At
<1>2. a = k.current /\ a \in Actor /\ pc["irq"].op = "off" /\ pc["tick"].op = "off"
  BY <1>1, RunningThread
<1>3. k.stat[a] = "ready"
  BY <1>1, <1>2 DEF IInv, CurrentInv
<1>4. QED BY <1>1, <1>2, <1>3, NotHeld

\* A call of thread a that ends in "owes rt_schedule".
LEMMA CallStep ==
    ASSUME IInv, NEW a \in Thread, Free(a), NEW o, Goto(a, o, NoThread), UNCHANGED slice,
           o \in {"sched", "block_sched", "sleep_sched", "yield_sched", "exit_sched", "unlock_sched"},
           KernelInv(k'), NEW y \in Thread, Touch(y), \A b \in Thread : pc[b].arg # y,
           k'.stat[Idle] = "ready", On(k, Defunct) \subseteq On(k', Defunct),
           k'.current = k.current,
           \/ k'.stat[a] = "ready"
           \/ k'.lock_nest = 0 /\ k'.stat[a] = "suspend" /\ o \in {"block_sched", "sleep_sched"}
           \/ k'.lock_nest = 0 /\ k'.stat[a] = "close" /\ o = "exit_sched"
    PROVE  IInv'
<1>1. a = k.current /\ a \in Actor
  BY FreeFacts
<1>2. /\ pc' \in [Actor -> [op : ThreadOp \cup TickOp \cup IrqOp, arg : Thread \cup {NoThread}]]
      /\ \A b \in Thread : pc'[b].op \in ThreadOp
      /\ pc'["tick"].op \in TickOp /\ pc'["irq"].op \in IrqOp
      /\ pc'[a].op = o /\ pc'[a].arg = NoThread
      /\ \A b \in Actor \ {a} : pc'[b] = pc[b]
  <2>1. o \in ThreadOp
    BY DEF ThreadOp
  <2>2. QED BY <1>1, <2>1, GotoEffect DEF IInv
<1>3. TypeOK'
  BY <1>2 DEF IInv, TypeOK, KernelInv
<1>4. Quiet
  BY <1>2 DEF Quiet, ResumeOp
<1>5. ArgInv' /\ IdleInv'
  BY <1>4, RestKept
<1>6. CurrentInv'
  BY <1>1, <1>2 DEF CurrentInv
<1>7. HighestRuns'
  BY <1>1, <1>2 DEF HighestRuns, Owes, AfterSched
<1>8. QED BY <1>3, <1>5, <1>6, <1>7 DEF IInv

\* rt_thread_yield keeps the invariant: the caller moves to the end of its ready queue
\* and owes an rt_schedule.
LEMMA YieldStep == ASSUME IInv, NEW a \in Thread, rt_thread_yield(a) PROVE IInv'
<1>1. a = k.current /\ a # Idle /\ a \in Actor /\ k.stat[a] = "ready" /\ \A b \in Actor : pc[b].arg # a
  BY FreeFacts DEF rt_thread_yield
<1>2. k' = rt_list_insert_before(rt_list_remove(k, a), k.priority[a], a)
  BY DEF rt_thread_yield, ToTail
<1>3. KernelInv(k') /\ SameThreads(k, k') /\ \A l \in ListId : On(k', l) = On(k, l)
  BY <1>1, <1>2, RotateInv DEF IInv
<1>4. Touch(a) /\ On(k, Defunct) \subseteq On(k', Defunct) /\ k'.stat[Idle] = "ready"
      /\ k'.current = k.current /\ k'.stat[a] = "ready"
  BY <1>1, <1>3, ListIdFacts DEF Touch, SameThreads, IInv, IdleInv
<1>5. \A b \in Thread : pc[b].arg # a
  BY <1>1 DEF Actor
<1>6. QED BY <1>3, <1>4, <1>5, CallStep DEF rt_thread_yield

\* rt_thread_sleep keeps the invariant: the caller leaves its ready queue with its timer
\* running and owes an rt_schedule.
LEMMA SleepStep == ASSUME IInv, NEW a \in Thread, rt_thread_sleep(a) PROVE IInv'
<1> DEFINE u == rt_thread_suspend(k, a)
<1>1. a = k.current /\ a # Idle /\ a \in Actor /\ k.stat[a] = "ready" /\ \A b \in Actor : pc[b].arg # a
  BY FreeFacts DEF rt_thread_sleep
<1>2. /\ KernelInv(u) /\ u.stat = [k.stat EXCEPT ![a] = "suspend"]
      /\ u.timer = k.timer \ {a} /\ u.current = k.current /\ u.lock_nest = k.lock_nest
      /\ \A l \in ListId : On(u, l) = On(k, l) \ {a}
  BY <1>1, SuspendInv DEF IInv
<1>3. k' = rt_timer_start(u, a) /\ k.lock_nest = 0
  BY DEF rt_thread_sleep
<1> HIDE DEF u
<1>4. \A x \in Thread : u.stat[x] = IF x = a THEN "suspend" ELSE k.stat[x]
  BY <1>2 DEF IInv, KernelInv, KernelState
<1>5. /\ KernelInv(k') /\ k'.timer = u.timer \cup {a} /\ k'.stat = u.stat
      /\ k'.current = u.current /\ k'.lock_nest = u.lock_nest /\ k'.lists = u.lists
  <2>1. u.stat[a] = "suspend" /\ KernelInv(u)
    BY <1>2, <1>4
  <2>2. QED BY <1>3, <2>1, TimerStartInv
<1>6. \A l \in ListId : On(k', l) = On(k, l) \ {a}
  BY <1>2, <1>5 DEF On
<1>7. Defunct \in ListId /\ a \notin On(k, Defunct)
  BY <1>1, ListIdFacts DEF IInv, KernelInv, StatTellsList
<1>8. /\ Touch(a) /\ On(k, Defunct) \subseteq On(k', Defunct) /\ k'.stat[Idle] = "ready"
      /\ k'.current = k.current /\ k'.stat[a] = "suspend" /\ k'.lock_nest = 0
  BY <1>1, <1>2, <1>3, <1>4, <1>5, <1>6, <1>7, KernelAssumption DEF Touch, IInv, IdleInv
<1>9. \A b \in Thread : pc[b].arg # a
  BY <1>1 DEF Actor
<1>10. QED BY <1>5, <1>8, <1>9, CallStep DEF rt_thread_sleep

\* rt_thread_exit keeps the invariant: the closed thread is in the defunct list or nowhere.
LEMMA ExitStep == ASSUME IInv, NEW a \in Thread, rt_thread_exit(a) PROVE IInv'
<1> DEFINE r == [rt_timer_stop(rt_schedule_remove_thread(k, a), a) EXCEPT !.stat[a] = "close"]
<1>1. a = k.current /\ a # Idle /\ a \in Actor /\ k.stat[a] = "ready" /\ \A b \in Actor : pc[b].arg # a
  BY FreeFacts DEF rt_thread_exit
<1>2. /\ KernelInv(r) /\ ~Linked(r, a) /\ r.stat = [k.stat EXCEPT ![a] = "close"]
      /\ r.timer = k.timer \ {a} /\ r.current = k.current /\ r.lock_nest = k.lock_nest
      /\ \A l \in ListId : On(r, l) = On(k, l) \ {a}
  BY <1>1, CloseInv DEF IInv
<1>3. /\ k.lock_nest = 0
      /\ k' = r \/ k' = rt_list_insert_after(r, Defunct, a)
  BY DEF rt_thread_exit
<1> HIDE DEF r
<1>4. \A x \in Thread : r.stat[x] = IF x = a THEN "close" ELSE k.stat[x]
  BY <1>2 DEF IInv, KernelInv, KernelState
<1>5. /\ KernelInv(k') /\ k'.stat = r.stat /\ k'.timer = r.timer
      /\ k'.current = r.current /\ k'.lock_nest = r.lock_nest
      /\ \A l \in ListId : On(k', l) = On(r, l) \/ On(k', l) = On(r, l) \cup {a}
  <2>1. CASE k' = r
    BY <1>2, <2>1
  <2>2. CASE k' = rt_list_insert_after(r, Defunct, a)
    <3>1. r.stat[a] = "close" /\ KernelInv(r) /\ ~Linked(r, a)
      BY <1>2, <1>4
    <3>2. QED BY <2>2, <3>1, DefunctInv DEF SameThreads
  <2>3. QED BY <1>3, <2>1, <2>2
<1>6. Defunct \in ListId /\ a \notin On(k, Defunct)
  BY <1>1, ListIdFacts DEF IInv, KernelInv, StatTellsList
<1>7. Touch(a)
  BY <1>2, <1>4, <1>5 DEF Touch
<1>8. On(k, Defunct) \subseteq On(k', Defunct)
  BY <1>2, <1>5, <1>6
<1>9. /\ k'.stat[Idle] = "ready" /\ k'.current = k.current /\ k'.stat[a] = "close"
      /\ k'.lock_nest = 0
  BY <1>1, <1>2, <1>3, <1>4, <1>5, KernelAssumption DEF IInv, IdleInv
<1>10. \A b \in Thread : pc[b].arg # a
  BY <1>1 DEF Actor
<1>11. QED BY <1>5, <1>7, <1>8, <1>9, <1>10, CallStep DEF rt_thread_exit

\* A caller that waits for an IPC object keeps the invariant (rt_ipc_list_suspend).
LEMMA BlockStep == ASSUME IInv, NEW a \in Thread, NEW w \in WaitList, block(a, w) PROVE IInv'
<1>1. a = k.current /\ a # Idle /\ a \in Actor /\ k.stat[a] = "ready" /\ \A b \in Actor : pc[b].arg # a
  BY FreeFacts DEF block
<1> DEFINE j == [k EXCEPT !.error[a] = "EOK"]
<1>2. /\ j \in KernelState /\ j.lists = k.lists /\ j.group = k.group /\ j.stat = k.stat
      /\ j.priority = k.priority /\ j.mask = k.mask /\ j.timer = k.timer
      /\ j.current = k.current /\ j.lock_nest = k.lock_nest
  BY ZenonT(60) DEF IInv, KernelInv, KernelState, Error
<1>3. \A l : On(j, l) = On(k, l)
  BY <1>2 DEF On
<1>4. PICK flag \in {"FIFO", "PRIO"}, timed \in BOOLEAN :
          k' = IF timed THEN rt_timer_start(rt_ipc_list_suspend(j, w, a, flag), a)
                        ELSE rt_ipc_list_suspend(j, w, a, flag)
  BY DEF block
<1> HIDE DEF j
<1>5. KernelInv(j)
  BY <1>2, <1>3 DEF IInv, KernelInv, NodesLinkedOnce, StatTellsList, BitmapExact, MaskExact,
                    TimersOfSuspended
<1> DEFINE u == rt_ipc_list_suspend(j, w, a, flag)
<1>6. /\ KernelInv(u) /\ u.stat = [j.stat EXCEPT ![a] = "suspend"]
      /\ u.timer = j.timer \ {a} /\ u.current = j.current /\ u.lock_nest = j.lock_nest
      /\ \A l \in ListId \ {w} : On(u, l) = On(j, l) \ {a}
      /\ On(u, w) = On(j, w) \cup {a}
  BY <1>1, <1>2, <1>5, IpcSuspendInv
<1>7. k' = rt_timer_start(u, a) \/ k' = u
  BY <1>4
<1> HIDE DEF u
<1>8. \A x \in Thread : u.stat[x] = IF x = a THEN "suspend" ELSE k.stat[x]
  BY <1>2, <1>6 DEF IInv, KernelInv, KernelState
<1>9. /\ KernelInv(k') /\ k'.timer \subseteq u.timer \cup {a} /\ k'.stat = u.stat
      /\ k'.current = u.current /\ k'.lock_nest = u.lock_nest /\ k'.lists = u.lists
  <2>1. u.stat[a] = "suspend" /\ KernelInv(u)
    BY <1>6, <1>8
  <2>2. QED BY <1>7, <2>1, TimerStartInv
<1>10. \A l : On(k', l) = On(u, l)
  BY <1>9 DEF On
<1>11. Defunct \in ListId \ {w} /\ a \notin On(k, Defunct)
  BY <1>1, ListIdFacts DEF IInv, KernelInv, StatTellsList
<1>12. Touch(a)
  <2>1. \A l \in ListId : On(k', l) \subseteq On(k, l) \cup {a}
    BY <1>3, <1>6, <1>10
  <2>2. QED BY <1>2, <1>6, <1>8, <1>9, <2>1 DEF Touch
<1>13. On(k, Defunct) \subseteq On(k', Defunct)
  BY <1>3, <1>6, <1>10, <1>11
<1>14. /\ k'.stat[Idle] = "ready" /\ k'.current = k.current /\ k'.stat[a] = "suspend"
       /\ k'.lock_nest = 0
  BY <1>1, <1>2, <1>6, <1>8, <1>9, KernelAssumption, ZenonT(60) DEF IInv, IdleInv, block
<1>15. \A b \in Thread : pc[b].arg # a
  BY <1>1 DEF Actor
<1>16. QED BY <1>9, <1>12, <1>13, <1>14, <1>15, CallStep DEF block

\* The first thread of a wait queue that is not empty.
LEMMA WaiterFacts ==
    ASSUME IInv, NEW w \in WaitList, k.lists[w] # << >>
    PROVE  LET t == Head(k.lists[w]) IN
           t \in Thread /\ t \in On(k, w) /\ k.stat[t] = "suspend"
<1>1. k.lists[w] \in Seq(Thread)
  BY ListIdFacts DEF IInv, KernelInv, KernelState
<1>2. Head(k.lists[w]) \in Thread /\ Head(k.lists[w]) \in On(k, w)
  BY <1>1, HeadLemma DEF On
<1>3. QED BY <1>2 DEF IInv, KernelInv, StatTellsList

\* Resuming a thread that is in a wait queue touches nobody else.
LEMMA ResumeTouch ==
    ASSUME IInv, NEW w \in WaitList, NEW t \in Thread, t \in On(k, w),
           k.stat[t] = "suspend", k' = rt_thread_resume(k, t)
    PROVE  /\ KernelInv(k') /\ Touch(t) /\ On(k, Defunct) = On(k', Defunct)
           /\ k'.stat[Idle] = "ready"
           /\ k'.current = k.current /\ k'.lock_nest = k.lock_nest
           /\ \A x \in Thread : k'.stat[x] = k.stat[x] \/ k'.stat[x] = "ready"
           /\ \A x \in Thread : k.stat[x] = "ready" => k'.stat[x] = "ready"
           /\ \A b \in Actor : pc[b].arg # t
<1>1. /\ KernelInv(k') /\ k'.stat = [k.stat EXCEPT ![t] = "ready"]
      /\ k'.timer = k.timer \ {t} /\ k'.priority = k.priority
      /\ k'.current = k.current /\ k'.lock_nest = k.lock_nest
      /\ \A l \in ListId \ Priority : On(k', l) = On(k, l) \ {t}
  BY ResumeInv DEF IInv
<1>2. \A x \in Thread : k'.stat[x] = IF x = t THEN "ready" ELSE k.stat[x]
  BY <1>1 DEF IInv, KernelInv, KernelState
<1>3. \A x \in Thread \ {t}, p \in Priority : x \in On(k', p) <=> x \in On(k, p)
  BY <1>1, <1>2 DEF IInv, KernelInv, StatTellsList
<1>4. \A l \in ListId : On(k', l) \subseteq Thread
  <2>1. \A l \in ListId : k'.lists[l] \in Seq(Thread)
    BY <1>1 DEF KernelInv, KernelState
  <2>2. QED BY <2>1, ToSetLemma DEF On
<1>5. \A l \in ListId : On(k', l) \subseteq On(k, l) \cup {t}
  BY <1>1, <1>3, <1>4
<1>6. Touch(t)
  BY <1>1, <1>2, <1>5 DEF Touch
<1>7. Defunct \in ListId \ Priority /\ t \notin On(k, Defunct) /\ w \in ListId
  BY ListIdFacts DEF IInv, KernelInv, StatTellsList
<1>8. On(k, Defunct) = On(k', Defunct)
  BY <1>1, <1>7
<1>9. k'.stat[Idle] = "ready"
  BY <1>2, KernelAssumption DEF IInv, IdleInv
<1>10. \A b \in Actor : pc[b].arg # t
  BY <1>7, NotHeld DEF Linked
<1>11. QED BY <1>1, <1>2, <1>6, <1>8, <1>9, <1>10

\* A caller that resumes the first waiter keeps the invariant (rt_ipc_list_resume).
LEMMA WakeStep == ASSUME IInv, NEW a \in Thread, NEW w \in WaitList, wake(a, w) PROVE IInv'
<1> DEFINE t == Head(k.lists[w])
<1>1. a = k.current /\ a # Idle /\ a \in Actor /\ k.stat[a] = "ready"
  BY FreeFacts DEF wake
<1>2. t \in Thread /\ t \in On(k, w) /\ k.stat[t] = "suspend" /\ k' = rt_thread_resume(k, t)
  BY WaiterFacts DEF wake, rt_ipc_list_resume
<1> HIDE DEF t
<1>3. KernelInv(k') /\ Touch(t) /\ On(k, Defunct) = On(k', Defunct)
      /\ k'.stat[Idle] = "ready" /\ k'.current = k.current /\ k'.lock_nest = k.lock_nest
      /\ k'.stat[a] = "ready" /\ \A b \in Actor : pc[b].arg # t
  BY <1>1, <1>2, ResumeTouch
<1>4. \A b \in Thread : pc[b].arg # t
  BY <1>3 DEF Actor
<1>5. QED BY <1>2, <1>3, <1>4, CallStep DEF wake

\* A step that leaves the kernel state alone but for the scheduler lock.
LEMMA LockOnly ==
    ASSUME IInv, NEW n \in Nat, k' = [k EXCEPT !.lock_nest = n]
    PROVE  /\ KernelInv(k') /\ Touch(Idle) /\ On(k', Defunct) = On(k, Defunct)
           /\ k'.stat = k.stat /\ k'.current = k.current /\ k'.lock_nest = n
           /\ HighestReady(k') = HighestReady(k)
<1>1. /\ k' \in KernelState /\ k'.lists = k.lists /\ k'.group = k.group /\ k'.stat = k.stat
      /\ k'.priority = k.priority /\ k'.mask = k.mask /\ k'.timer = k.timer
      /\ k'.current = k.current /\ k'.lock_nest = n
  BY ZenonT(60) DEF IInv, KernelInv, KernelState
<1>2. \A l : On(k', l) = On(k, l)
  BY <1>1 DEF On
<1>3. KernelInv(k')
  BY <1>1, <1>2 DEF IInv, KernelInv, NodesLinkedOnce, StatTellsList, BitmapExact, MaskExact,
                    TimersOfSuspended
<1>4. Touch(Idle)
  BY <1>1, <1>2 DEF Touch
<1>5. HighestReady(k') = HighestReady(k)
  BY <1>1 DEF HighestReady
<1>6. QED BY <1>1, <1>2, <1>3, <1>4, <1>5

\* rt_enter_critical keeps the invariant: only the lock count changes.
LEMMA EnterCriticalStep == ASSUME IInv, NEW a \in Thread, rt_enter_critical(a) PROVE IInv'
<1>1. a = k.current /\ k.stat[a] = "ready" /\ k.lock_nest \in Nat /\ Idle \in Thread
  BY FreeFacts, KernelAssumption DEF rt_enter_critical, IInv, KernelInv, KernelState
<1>2. k' = [k EXCEPT !.lock_nest = k.lock_nest + 1] /\ UNCHANGED <<pc, slice>>
  BY DEF rt_enter_critical
<1>3. /\ KernelInv(k') /\ Touch(Idle) /\ On(k', Defunct) = On(k, Defunct)
      /\ k'.stat = k.stat /\ k'.current = k.current /\ k'.lock_nest = k.lock_nest + 1
  BY <1>1, <1>2, LockOnly
<1>4. TypeOK'
  BY <1>2, <1>3 DEF IInv, TypeOK, KernelInv
<1>5. Quiet /\ k'.stat[Idle] = "ready" /\ k.stat[Idle] = "ready"
  BY <1>2, <1>3 DEF Quiet, IInv, IdleInv
<1>6. \A b \in Thread : pc[b].arg # Idle
  BY <1>1, <1>5, NotHeld DEF Actor
<1>7. ArgInv' /\ IdleInv'
  BY <1>1, <1>3, <1>5, <1>6, RestKept
<1>8. CurrentInv' /\ HighestRuns'
  BY <1>1, <1>3 DEF CurrentInv, HighestRuns
<1>9. QED BY <1>3, <1>4, <1>7, <1>8 DEF IInv

\* rt_exit_critical keeps the invariant: the last one owes an rt_schedule.
LEMMA ExitCriticalStep == ASSUME IInv, NEW a \in Thread, rt_exit_critical(a) PROVE IInv'
<1> DEFINE n == IF k.lock_nest <= 1 THEN 0 ELSE k.lock_nest - 1
<1>1. a = k.current /\ k.stat[a] = "ready" /\ k.lock_nest \in Nat /\ Idle \in Thread
  BY FreeFacts, KernelAssumption DEF rt_exit_critical, IInv, KernelInv, KernelState
<1>2. k' = [k EXCEPT !.lock_nest = n] /\ UNCHANGED slice /\ n \in Nat
  BY <1>1 DEF rt_exit_critical
<1>3. /\ KernelInv(k') /\ Touch(Idle) /\ On(k', Defunct) = On(k, Defunct)
      /\ k'.stat = k.stat /\ k'.current = k.current /\ k'.lock_nest = n
  BY <1>2, LockOnly, ZenonT(60)
<1>4. k'.stat[Idle] = "ready" /\ k.stat[Idle] = "ready" /\ k'.stat[a] = "ready"
  BY <1>1, <1>3 DEF IInv, IdleInv
<1>5. \A b \in Thread : pc[b].arg # Idle
  BY <1>1, <1>4, NotHeld DEF Actor
<1>6. CASE k.lock_nest <= 1
  <2>1. Goto(a, "unlock_sched", NoThread) /\ Free(a)
    BY <1>6 DEF rt_exit_critical
  <2>2. QED BY <1>1, <1>2, <1>3, <1>4, <1>5, <2>1, CallStep
<1>7. CASE ~(k.lock_nest <= 1)
  <2>1. UNCHANGED pc
    BY <1>7 DEF rt_exit_critical
  <2>2. TypeOK'
    BY <1>2, <1>3, <2>1 DEF IInv, TypeOK, KernelInv
  <2>3. Quiet
    BY <2>1 DEF Quiet
  <2>4. ArgInv' /\ IdleInv'
    BY <1>1, <1>3, <1>4, <1>5, <2>3, RestKept
  <2>5. k'.lock_nest > 0
    BY <1>1, <1>3, <1>7
  <2>6. CurrentInv' /\ HighestRuns'
    BY <1>1, <1>3, <1>4, <2>5 DEF CurrentInv, HighestRuns
  <2>7. QED BY <1>3, <2>2, <2>4, <2>6 DEF IInv
<1>8. QED BY <1>6, <1>7

\* A step that changes no thread and no ring.
LEMMA UntouchedRest ==
    ASSUME IInv, Quiet, k'.stat = k.stat, k'.timer = k.timer, k'.lists = k.lists
    PROVE  ArgInv' /\ IdleInv'
<1>1. Idle \in Thread /\ k.stat[Idle] = "ready"
  BY KernelAssumption DEF IInv, IdleInv
<1>2. \A b \in Thread : pc[b].arg # Idle
  BY <1>1, NotHeld DEF Actor
<1>3. \A l : On(k', l) = On(k, l)
  BY DEF On
<1>4. Touch(Idle)
  BY <1>3 DEF Touch
<1>5. QED BY <1>1, <1>2, <1>3, <1>4, RestKept

\* rt_schedule called by thread a.
LEMMA SchedStep == ASSUME IInv, NEW a \in Thread, schedule(a) PROVE IInv'
<1>1. a = k.current /\ a \in Actor
  BY RunningThread DEF schedule
<1>2. pc[a].op \in DOMAIN AfterSched /\ AfterSched[pc[a].op] \in {"run", "slept", "dead"}
  BY DEF schedule, AfterSched
<1>3. /\ pc' \in [Actor -> [op : ThreadOp \cup TickOp \cup IrqOp, arg : Thread \cup {NoThread}]]
      /\ \A b \in Thread : pc'[b].op \in ThreadOp
      /\ pc'["tick"].op \in TickOp /\ pc'["irq"].op \in IrqOp
      /\ pc'[a].op \in {"run", "slept", "dead"} /\ pc'[a].arg = NoThread
      /\ \A b \in Actor \ {a} : pc'[b] = pc[b]
  <2>1. AfterSched[pc[a].op] \in ThreadOp
    BY <1>2 DEF ThreadOp
  <2>2. Goto(a, AfterSched[pc[a].op], NoThread) /\ TypeOK
    BY DEF schedule, IInv
  <2>3. QED BY <1>1, <1>2, <2>1, <2>2, GotoEffect
<1>4. k.lock_nest > 0 => k.stat[k.current] = "ready"
  BY DEF IInv, CurrentInv
<1>5. /\ KernelInv(k') /\ CurrentInv' /\ HighestRuns'
      /\ k'.stat = k.stat /\ k'.timer = k.timer /\ k'.lists = k.lists
  BY <1>4, ScheduleStep DEF schedule, IInv, IdleInv
<1>6. Quiet
  BY <1>3 DEF Quiet, ResumeOp
<1>7. ArgInv' /\ IdleInv'
  BY <1>5, <1>6, UntouchedRest
<1>8. TypeOK'
  BY <1>3, <1>5 DEF IInv, TypeOK, KernelInv, schedule
<1>9. QED BY <1>5, <1>7, <1>8 DEF IInv

\* The end of rt_thread_sleep keeps the invariant: only the error code changes.
LEMMA SleptStep == ASSUME IInv, NEW a \in Thread, slept(a) PROVE IInv'
<1>1. a = k.current /\ a \in Actor /\ pc[a].op = "slept" /\ UNCHANGED slice
  BY RunningThread DEF slept, At
<1>2. k' = [k EXCEPT !.error[a] = IF k.error[a] = "ETIMEOUT" THEN "EOK" ELSE k.error[a]]
  BY DEF slept, IInv, KernelInv, KernelState
<1>3. /\ k' \in KernelState /\ k'.lists = k.lists /\ k'.group = k.group /\ k'.stat = k.stat
      /\ k'.priority = k.priority /\ k'.mask = k.mask /\ k'.timer = k.timer
      /\ k'.current = k.current /\ k'.lock_nest = k.lock_nest
  BY <1>2, ZenonT(60) DEF IInv, KernelInv, KernelState, Error
<1>4. \A l : On(k', l) = On(k, l)
  BY <1>3 DEF On
<1>5. KernelInv(k')
  BY <1>3, <1>4 DEF IInv, KernelInv, NodesLinkedOnce, StatTellsList, BitmapExact, MaskExact,
                    TimersOfSuspended
<1>6. /\ pc' \in [Actor -> [op : ThreadOp \cup TickOp \cup IrqOp, arg : Thread \cup {NoThread}]]
      /\ \A b \in Thread : pc'[b].op \in ThreadOp
      /\ pc'["tick"].op \in TickOp /\ pc'["irq"].op \in IrqOp
      /\ pc'[a].op = "run" /\ pc'[a].arg = NoThread
      /\ \A b \in Actor \ {a} : pc'[b] = pc[b]
  <2>1. "run" \in ThreadOp /\ Goto(a, "run", NoThread) /\ TypeOK
    BY DEF ThreadOp, slept, IInv
  <2>2. QED BY <1>1, <2>1, GotoEffect
<1>7. Quiet
  BY <1>6 DEF Quiet, ResumeOp
<1>8. ArgInv' /\ IdleInv'
  BY <1>3, <1>7, UntouchedRest
<1>9. TypeOK'
  BY <1>1, <1>3, <1>6 DEF IInv, TypeOK
<1>10. k.stat[a] = "ready" /\ ~Owes(a)
  BY <1>1 DEF IInv, CurrentInv, Owes, AfterSched
<1>11. CurrentInv'
  BY <1>1, <1>3, <1>10 DEF IInv, CurrentInv
<1>12. HighestRuns'
  <2>1. HighestReady(k') = HighestReady(k)
    BY <1>3 DEF HighestReady
  <2>2. pc'["tick"] = pc["tick"] /\ pc'["irq"] = pc["irq"]
    BY <1>6, SchedulerAssumption DEF Actor, Isr
  <2>3. QED BY <1>1, <1>3, <1>10, <2>1, <2>2 DEF IInv, HighestRuns, Owes
<1>13. QED BY <1>5, <1>8, <1>9, <1>11, <1>12 DEF IInv

\* A step of the running thread that owes no rt_schedule and leaves the ready
\* queues, the bitmap and the scheduler lock as they are.
LEMMA KeepHighest ==
    ASSUME IInv, NEW a \in Thread, Running = a, ~Owes(a), k'.current = k.current,
           k'.lock_nest = k.lock_nest, k'.group = k.group,
           \A p \in Priority : k'.lists[p] = k.lists[p]
    PROVE  HighestRuns'
<1>1. a = k.current /\ pc["irq"].op = "off" /\ pc["tick"].op = "off"
  BY RunningThread
<1>2. HighestReady(k') = HighestReady(k)
  BY SameReady DEF IInv
<1>3. ~Owes("tick") /\ ~Owes("irq")
  BY <1>1 DEF Owes, AfterSched
<1>4. QED BY <1>1, <1>2, <1>3 DEF IInv, HighestRuns

\* rt_thread_create.
LEMMA CreateStep ==
    ASSUME IInv, NEW a \in Thread, NEW t \in Thread, NEW p \in Priority, rt_thread_create(a, t, p)
    PROVE  IInv'
<1>1. a = k.current /\ a \in Actor /\ k.stat[a] = "ready" /\ k.stat[t] = "none" /\ t \in Actor
      /\ Running = a /\ pc[a].op = "run"
  BY FreeFacts DEF rt_thread_create, Actor, Free, At
<1>2. k' = [k EXCEPT !.stat[t] = "init", !.error[t] = "EOK", !.mask[t] = {},
                     !.priority[t] = p, !.init_priority[t] = p]
  BY DEF rt_thread_create
<1>3. /\ k' \in KernelState /\ k'.lists = k.lists /\ k'.group = k.group
      /\ k'.stat = [k.stat EXCEPT ![t] = "init"] /\ k'.timer = k.timer
      /\ \A x \in Thread \ {t} : k'.priority[x] = k.priority[x] /\ k'.mask[x] = k.mask[x]
      /\ k'.current = k.current /\ k'.lock_nest = k.lock_nest
  BY <1>2, ZenonT(60) DEF IInv, KernelInv, KernelState, Stat, Error
<1>4. ~Linked(k, t) /\ t \notin k.timer /\ k.stat[t] # "ready"
  BY <1>1, ListIdFacts DEF IInv, KernelInv, StatTellsList, TimersOfSuspended, Linked
<1>5. \A x \in Thread : k'.stat[x] = IF x = t THEN "init" ELSE k.stat[x]
  BY <1>3 DEF IInv, KernelInv, KernelState
<1>6. KernelInv(k')
  <2>1. FreeChange(k, k', t)
    BY <1>3, <1>4, <1>5 DEF FreeChange
  <2>2. QED BY <2>1, FreeStatInv DEF IInv
<1>7. \A l : On(k', l) = On(k, l)
  BY <1>3 DEF On
<1>8. Touch(t)
  BY <1>3, <1>5, <1>7 DEF Touch
<1>9. pc' = [pc EXCEPT ![t] = [op |-> "run", arg |-> NoThread]]
  BY DEF rt_thread_create
<1>10. /\ pc' \in [Actor -> [op : ThreadOp \cup TickOp \cup IrqOp, arg : Thread \cup {NoThread}]]
       /\ \A b \in Thread : pc'[b].op \in ThreadOp
       /\ pc'["tick"].op \in TickOp /\ pc'["irq"].op \in IrqOp
       /\ pc'[t].op = "run" /\ pc'[t].arg = NoThread
       /\ \A b \in Actor \ {t} : pc'[b] = pc[b]
  <2>1. "run" \in ThreadOp /\ Goto(t, "run", NoThread) /\ TypeOK
    BY <1>9 DEF ThreadOp, Goto, IInv
  <2>2. QED BY <1>1, <2>1, GotoEffect
<1>11. Quiet
  BY <1>10 DEF Quiet, ResumeOp
<1>12. \A b \in Thread : pc[b].arg # t
  BY <1>1, NotHeld DEF Actor
<1>13. k'.stat[Idle] = "ready" /\ k'.stat[a] = "ready"
  BY <1>1, <1>5, KernelAssumption DEF IInv, IdleInv
<1>14. ArgInv' /\ IdleInv'
  BY <1>7, <1>8, <1>11, <1>12, <1>13, RestKept
<1>15. slice' \in [Thread -> 1 .. InitTick]
  <2>1. InitTick \in 1 .. InitTick
    BY SchedulerAssumption
  <2>2. slice' = [slice EXCEPT ![t] = InitTick] /\ slice \in [Thread -> 1 .. InitTick]
    BY DEF rt_thread_create, IInv, TypeOK
  <2>3. QED BY <2>1, <2>2
<1>16. TypeOK'
  BY <1>3, <1>10, <1>15 DEF TypeOK
<1>17. CurrentInv'
  BY <1>1, <1>3, <1>13 DEF CurrentInv
<1>18. HighestRuns'
  BY <1>1, <1>3, KeepHighest DEF Owes, AfterSched
<1>19. QED BY <1>6, <1>14, <1>16, <1>17, <1>18 DEF IInv

\* Thread a takes thread t in hand, or keeps it there.
LEMMA HandOver ==
    ASSUME IInv, NEW a \in Thread, NEW t \in Thread, Touch(t), InFlight(k', t),
           \A b \in Actor : b # a => pc[b].arg # t,
           pc'[a].op \in ResumeOp, pc'[a].arg = t, \A b \in Actor \ {a} : pc'[b] = pc[b]
    PROVE  ArgInv'
<1>1. Idle \in Thread /\ \A b \in Thread : b \in Actor
  BY KernelAssumption DEF Actor
<1>2. ASSUME NEW b \in Thread, pc'[b].op \in ResumeOp
      PROVE  pc'[b].arg \in Thread /\ InFlight(k', pc'[b].arg)
  <2>1. CASE b = a
    BY <2>1
  <2>2. CASE b # a
    <3>1. pc'[b] = pc[b] /\ pc[b].arg \in Thread /\ InFlight(k, pc[b].arg) /\ pc[b].arg # t
      BY <1>1, <1>2, <2>2 DEF IInv, ArgInv
    <3>2. QED BY <3>1, UntouchedKept
  <2>3. QED BY <2>1, <2>2
<1>3. ASSUME pc'[Idle].op = "idle_free"
      PROVE  pc'[Idle].arg \in Thread /\ Reaped(k', pc'[Idle].arg)
  <2>1. Idle # a
    BY <1>3 DEF ResumeOp
  <2>2. /\ pc'[Idle] = pc[Idle] /\ pc[Idle].arg \in Thread /\ Reaped(k, pc[Idle].arg)
        /\ pc[Idle].arg # t
    BY <1>1, <1>3, <2>1 DEF IInv, ArgInv
  <2>3. QED BY <2>2, UntouchedKept
<1>4. ASSUME NEW b \in Actor, pc'[b].arg # NoThread
      PROVE  \/ b \in Thread /\ pc'[b].op \in ResumeOp
             \/ b = Idle /\ pc'[b].op = "idle_free"
  BY <1>4 DEF IInv, ArgInv
<1>5. ASSUME NEW b \in Thread, NEW c \in Thread, b # c, pc'[b].arg # NoThread
      PROVE  pc'[c].arg # pc'[b].arg
  BY <1>1, <1>5 DEF IInv, ArgInv
<1>6. QED BY <1>2, <1>3, <1>4, <1>5 DEF ArgInv

\* rt_thread_startup: the thread is in the caller's hands until it is ready.
LEMMA StartupStep ==
    ASSUME IInv, NEW a \in Thread, NEW t \in Thread, rt_thread_startup(a, t)
    PROVE  IInv'
<1>1. a = k.current /\ a \in Actor /\ k.stat[a] = "ready" /\ k.stat[t] = "init"
      /\ Running = a /\ pc[a].op = "run" /\ t # Idle /\ t # a
  BY FreeFacts DEF rt_thread_startup, Free, At, IInv, IdleInv
<1> DEFINE j == SetPriority(k, t, k.init_priority[t])
<1>2. /\ j \in KernelState /\ j.lists = k.lists /\ j.group = k.group
      /\ j.stat = k.stat /\ j.timer = k.timer
      /\ \A x \in Thread \ {t} : j.priority[x] = k.priority[x] /\ j.mask[x] = k.mask[x]
      /\ j.mask[t] = {j.priority[t]}
      /\ j.current = k.current /\ j.lock_nest = k.lock_nest
  BY ZenonT(60) DEF IInv, KernelInv, KernelState, SetPriority
<1>3. /\ k' \in KernelState /\ k'.lists = k.lists /\ k'.group = k.group
      /\ k'.stat = [k.stat EXCEPT ![t] = "suspend"] /\ k'.timer = k.timer
      /\ \A x \in Thread \ {t} : k'.priority[x] = k.priority[x] /\ k'.mask[x] = k.mask[x]
      /\ k'.mask[t] = {k'.priority[t]}
      /\ k'.current = k.current /\ k'.lock_nest = k.lock_nest
  <2>1. k' = [j EXCEPT !.stat[t] = "suspend"]
    BY DEF rt_thread_startup
  <2> HIDE DEF j
  <2>2. QED BY <1>2, <2>1, ZenonT(60) DEF KernelState, Stat
<1>4. ~Linked(k, t) /\ t \notin k.timer /\ k.stat[t] # "ready"
  BY <1>1, ListIdFacts DEF IInv, KernelInv, StatTellsList, TimersOfSuspended, Linked
<1>5. \A x \in Thread : k'.stat[x] = IF x = t THEN "suspend" ELSE k.stat[x]
  BY <1>3 DEF IInv, KernelInv, KernelState
<1>6. KernelInv(k')
  <2>1. FreeChange(k, k', t)
    BY <1>3, <1>4, <1>5 DEF FreeChange
  <2>2. QED BY <2>1, FreeStatInv DEF IInv
<1>7. \A l : On(k', l) = On(k, l)
  BY <1>3 DEF On
<1>8. Touch(t) /\ InFlight(k', t)
  BY <1>3, <1>4, <1>5, <1>7 DEF Touch, InFlight, Linked
<1>9. /\ pc' \in [Actor -> [op : ThreadOp \cup TickOp \cup IrqOp, arg : Thread \cup {NoThread}]]
      /\ \A b \in Thread : pc'[b].op \in ThreadOp
      /\ pc'["tick"].op \in TickOp /\ pc'["irq"].op \in IrqOp
      /\ pc'[a].op = "resume_unlink" /\ pc'[a].arg = t
      /\ \A b \in Actor \ {a} : pc'[b] = pc[b]
  <2>1. "resume_unlink" \in ThreadOp /\ Goto(a, "resume_unlink", t) /\ TypeOK
    BY DEF ThreadOp, IInv, rt_thread_startup
  <2>2. QED BY <1>1, <2>1, GotoEffect
<1>10. \A b \in Actor : pc[b].arg # t
  BY <1>1, NotHeld
<1>11. ArgInv'
  <2>1. "resume_unlink" \in ResumeOp
    BY DEF ResumeOp
  <2>2. QED BY <1>8, <1>9, <1>10, <2>1, HandOver
<1>12. IdleInv'
  BY <1>1, <1>5, <1>7, <1>9, KernelAssumption DEF IInv, IdleInv, Actor
<1>13. TypeOK'
  BY <1>3, <1>9 DEF IInv, TypeOK, rt_thread_startup
<1>14. CurrentInv'
  BY <1>1, <1>3, <1>5 DEF CurrentInv
<1>15. HighestRuns'
  BY <1>1, <1>3, KeepHighest DEF Owes, AfterSched
<1>16. QED BY <1>6, <1>11, <1>12, <1>13, <1>14, <1>15 DEF IInv

\* The first section of rt_thread_resume.
LEMMA ResumeUnlinkStep == ASSUME IInv, NEW a \in Thread, resume_unlink(a) PROVE IInv'
<1> DEFINE t == pc[a].arg
<1>1. a = k.current /\ a \in Actor /\ Running = a /\ pc[a].op = "resume_unlink"
  BY RunningThread DEF resume_unlink, At
<1>2. t \in Thread /\ InFlight(k, t) /\ k.stat[t] = "suspend"
  BY <1>1 DEF IInv, ArgInv, ResumeOp, InFlight
<1>3. k' = rt_timer_stop(rt_list_remove(k, t), t) /\ Goto(a, "resume_insert", t) /\ UNCHANGED slice
  BY DEF resume_unlink
<1>4. \A b \in Thread : b # a => pc[b].arg # t
  BY <1>2, KernelAssumption DEF IInv, ArgInv
<1> HIDE DEF t
<1>5. /\ KernelInv(k') /\ ~Linked(k', t) /\ t \notin k'.timer
      /\ k'.stat = k.stat /\ k'.timer = k.timer \ {t}
      /\ k'.current = k.current /\ k'.lock_nest = k.lock_nest
      /\ \A l \in ListId : On(k', l) = On(k, l) \ {t}
      /\ \A p \in Priority : k'.lists[p] = k.lists[p]
  BY <1>2, <1>3, UnlinkInv DEF IInv
<1>6. Touch(t) /\ InFlight(k', t)
  BY <1>2, <1>5 DEF Touch, InFlight
<1>7. /\ pc' \in [Actor -> [op : ThreadOp \cup TickOp \cup IrqOp, arg : Thread \cup {NoThread}]]
      /\ \A b \in Thread : pc'[b].op \in ThreadOp
      /\ pc'["tick"].op \in TickOp /\ pc'["irq"].op \in IrqOp
      /\ pc'[a].op = "resume_insert" /\ pc'[a].arg = t
      /\ \A b \in Actor \ {a} : pc'[b] = pc[b]
  <2>1. "resume_insert" \in ThreadOp /\ TypeOK
    BY DEF ThreadOp, IInv
  <2>2. QED BY <1>1, <1>2, <1>3, <2>1, GotoEffect
<1>8. \A b \in Actor : b # a => pc[b].arg # t
  BY <1>2, <1>4, KernelAssumption DEF IInv, ArgInv
<1>9. ArgInv'
  <2>1. "resume_insert" \in ResumeOp
    BY DEF ResumeOp
  <2>2. QED BY <1>2, <1>6, <1>7, <1>8, <2>1, HandOver
<1>10. Defunct \in ListId /\ t \notin On(k, Defunct)
  BY <1>2, ListIdFacts DEF InFlight, Linked
<1>11. IdleInv'
  BY <1>1, <1>5, <1>7, <1>10, KernelAssumption DEF IInv, IdleInv, Actor
<1>12. TypeOK'
  BY <1>3, <1>5, <1>7 DEF IInv, TypeOK, KernelInv
<1>13. CurrentInv'
  BY <1>1, <1>5, <1>7 DEF IInv, CurrentInv
<1>14. HighestRuns'
  <2>1. k'.group = k.group
    BY <1>3 DEF rt_timer_stop, rt_list_remove, IInv, KernelInv, KernelState
  <2>2. QED BY <1>1, <1>5, <2>1, KeepHighest DEF Owes, AfterSched
<1>15. QED BY <1>5, <1>9, <1>11, <1>12, <1>13, <1>14 DEF IInv

\* The last section of rt_thread_resume, after interrupts have been enabled.
LEMMA ResumeInsertStep == ASSUME IInv, NEW a \in Thread, resume_insert(a) PROVE IInv'
<1> DEFINE t == pc[a].arg
<1>1. a = k.current /\ a \in Actor /\ pc[a].op = "resume_insert" /\ k.stat[a] = "ready"
  BY RunningThread DEF resume_insert, At, IInv, CurrentInv
<1>2. t \in Thread /\ InFlight(k, t) /\ k.stat[t] = "suspend" /\ ~Linked(k, t) /\ t \notin k.timer
  BY <1>1 DEF IInv, ArgInv, ResumeOp, InFlight
<1>3. k' = rt_schedule_insert_thread(k, t) /\ Goto(a, "sched", NoThread) /\ UNCHANGED slice
  BY DEF resume_insert
<1>4. \A b \in Thread : b # a => pc[b].arg # t
  BY <1>2, KernelAssumption DEF IInv, ArgInv
<1> HIDE DEF t
<1>5. /\ KernelInv(k') /\ k'.stat = [k.stat EXCEPT ![t] = "ready"]
      /\ k'.timer = k.timer /\ k'.current = k.current /\ k'.lock_nest = k.lock_nest
      /\ On(k', k.priority[t]) = On(k, k.priority[t]) \cup {t}
      /\ \A l \in ListId \ {k.priority[t]} : k'.lists[l] = k.lists[l]
  <2>1. KernelInv(k)
    BY DEF IInv
  <2>2. QED BY <1>2, <1>3, <2>1, ScheduleInsertInv
<1>6. \A x \in Thread : k'.stat[x] = IF x = t THEN "ready" ELSE k.stat[x]
  BY <1>5 DEF IInv, KernelInv, KernelState
<1>7. \A l \in ListId : On(k', l) \subseteq On(k, l) \cup {t}
  BY <1>5 DEF On
<1>8. Touch(t)
  BY <1>5, <1>6, <1>7 DEF Touch
<1>9. On(k', Defunct) = On(k, Defunct)
  <2>1. k.priority[t] \in Priority
    BY <1>2 DEF IInv, KernelInv, KernelState
  <2>2. QED BY <1>5, <2>1, ListIdFacts DEF On
<1>10. k'.stat[Idle] = "ready" /\ k'.stat[a] = "ready"
  BY <1>1, <1>6, KernelAssumption DEF IInv, IdleInv
<1>11. /\ pc' \in [Actor -> [op : ThreadOp \cup TickOp \cup IrqOp, arg : Thread \cup {NoThread}]]
       /\ \A b \in Thread : pc'[b].op \in ThreadOp
       /\ pc'["tick"].op \in TickOp /\ pc'["irq"].op \in IrqOp
       /\ pc'[a].op = "sched" /\ pc'[a].arg = NoThread
       /\ \A b \in Actor \ {a} : pc'[b] = pc[b]
  <2>1. "sched" \in ThreadOp /\ TypeOK
    BY DEF ThreadOp, IInv
  <2>2. QED BY <1>1, <1>3, <2>1, GotoEffect
<1>12. Quiet
  BY <1>11 DEF Quiet, ResumeOp
<1>13. \A b \in Thread : pc[b].arg # t \/ pc'[b].arg = NoThread
  BY <1>4, <1>11
<1>14. ArgInv' /\ IdleInv'
  BY <1>2, <1>8, <1>9, <1>10, <1>12, <1>13, RestKept
<1>15. TypeOK'
  BY <1>3, <1>5, <1>11 DEF IInv, TypeOK, KernelInv
<1>16. CurrentInv' /\ HighestRuns'
  BY <1>1, <1>5, <1>10, <1>11 DEF CurrentInv, HighestRuns, Owes, AfterSched
<1>17. QED BY <1>5, <1>14, <1>15, <1>16 DEF IInv

=============================================================================
