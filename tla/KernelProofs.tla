---------------------------- MODULE KernelProofs ----------------------------
(***************************************************************************)
(* Every kernel function keeps KernelInv, for every number of threads,     *)
(* priorities and wait queues.                                             *)
(*                                                                         *)
(* For each function there is a lemma that says what it changes in terms   *)
(* of the sets On(k, l), so that the proofs that follow need no sequences. *)
(***************************************************************************)
EXTENDS Kernel, SeqLemmas, WellFoundedInduction

\* Ready queues, wait queues and the defunct list are different rings.
LEMMA ListIdFacts ==
    /\ \A p \in Priority : p \in ListId /\ p \notin WaitList /\ p # Defunct
    /\ \A w \in WaitList : w \in ListId /\ w \notin Priority /\ w # Defunct
    /\ Defunct \in ListId /\ Defunct \notin Priority /\ Defunct \notin WaitList
    /\ \A l \in ListId : l \in Priority \/ l \in WaitList \/ l = Defunct
  BY KernelAssumption DEF ListId

\* A set of naturals that is not empty has a least element, which Min returns.
LEMMA MinLemma ==
    ASSUME NEW S, S \subseteq Nat, S # {}
    PROVE  Min(S) \in S
<1>1. \E m \in S : \A n \in S : ~(<<n, m>> \in OpToRel(<, Nat))
  BY NatLessThanWellFounded, WFMin
<1>2. PICK m \in S : \A n \in S : ~(<<n, m>> \in OpToRel(<, Nat))
  BY <1>1
<1>3. \A n \in S : m <= n
  <2>1. \A n \in Nat : n < m /\ m \in Nat => <<n, m>> \in OpToRel(<, Nat)
    BY DEF OpToRel
  <2>2. \A n \in S : ~(n < m)
    BY <1>2, <2>1
  <2>3. QED BY <2>2
<1>4. QED BY <1>3, ZenonT(60) DEF Min

\* Lists are well formed: what the other lemmas need to start from.
Formed(k) == k \in KernelState /\ \A l \in ListId : IsInjective(k.lists[l])

\* The parts of two kernel states that the list operations leave alone.
SameThreads(k, v) ==
    /\ v.stat = k.stat /\ v.error = k.error /\ v.timer = k.timer
    /\ v.priority = k.priority /\ v.init_priority = k.init_priority
    /\ v.mask = k.mask /\ v.current = k.current /\ v.lock_nest = k.lock_nest

\* rt_list_remove takes the thread out of every ring and does nothing else.
LEMMA ListRemoveEffect ==
    ASSUME NEW k, Formed(k), NEW t \in Thread
    PROVE  LET v == rt_list_remove(k, t) IN
           /\ Formed(v)
           /\ SameThreads(k, v) /\ v.group = k.group
           /\ \A l \in ListId : On(v, l) = On(k, l) \ {t}
           /\ \A l \in ListId : t \notin On(k, l) => v.lists[l] = k.lists[l]
<1> DEFINE v == rt_list_remove(k, t)
<1>1. \A l \in ListId : k.lists[l] \in Seq(Thread) /\ IsInjective(k.lists[l])
  BY DEF Formed, KernelState
<1>2. \A l \in ListId : v.lists[l] = RemoveFirst(k.lists[l], t)
  BY DEF rt_list_remove, Formed, KernelState
<1>3. ASSUME NEW l \in ListId
      PROVE  /\ RemoveFirst(k.lists[l], t) \in Seq(Thread)
             /\ ToSet(RemoveFirst(k.lists[l], t)) = ToSet(k.lists[l]) \ {t}
             /\ IsInjective(RemoveFirst(k.lists[l], t))
             /\ t \notin ToSet(k.lists[l]) => RemoveFirst(k.lists[l], t) = k.lists[l]
  BY <1>1, RemoveFirstLemma
<1>4. v \in KernelState
  BY <1>3, ZenonT(60) DEF rt_list_remove, Formed, KernelState
<1>5. SameThreads(k, v) /\ v.group = k.group
  BY DEF rt_list_remove, Formed, KernelState, SameThreads
<1>6. QED BY <1>2, <1>3, <1>4, <1>5, ZenonT(60) DEF Formed, On

\* Insertion at the end of a ring of a thread that is in none.
LEMMA InsertBeforeEffect ==
    ASSUME NEW k, Formed(k), NEW t \in Thread, NEW l \in ListId, t \notin On(k, l)
    PROVE  LET v == rt_list_insert_before(k, l, t) IN
           /\ Formed(v)
           /\ SameThreads(k, v) /\ v.group = k.group
           /\ On(v, l) = On(k, l) \cup {t}
           /\ v.lists[l] # << >>
           /\ \A m \in ListId \ {l} : On(v, m) = On(k, m) /\ v.lists[m] = k.lists[m]
<1> DEFINE v == rt_list_insert_before(k, l, t)
<1>1. k.lists[l] \in Seq(Thread) /\ IsInjective(k.lists[l])
  BY DEF Formed, KernelState
<1>2. /\ v.lists[l] = Append(k.lists[l], t)
      /\ \A m \in ListId \ {l} : v.lists[m] = k.lists[m]
  BY DEF rt_list_insert_before, Formed, KernelState
<1>3. /\ Append(k.lists[l], t) \in Seq(Thread)
      /\ Append(k.lists[l], t) # << >>
      /\ ToSet(Append(k.lists[l], t)) = ToSet(k.lists[l]) \cup {t}
      /\ IsInjective(Append(k.lists[l], t))
  BY <1>1, AppendLemma DEF On
<1>4. v \in KernelState
  BY <1>3, ZenonT(60) DEF rt_list_insert_before, Formed, KernelState
<1>5. SameThreads(k, v) /\ v.group = k.group
  BY DEF rt_list_insert_before, Formed, KernelState, SameThreads
<1>6. QED BY <1>2, <1>3, <1>4, <1>5, ZenonT(60) DEF Formed, On

-----------------------------------------------------------------------------

\* rt_schedule_insert_thread of a suspended thread whose node is free and
\* whose timer is off: the last section of rt_thread_resume.
LEMMA ScheduleInsertInv ==
    ASSUME NEW k, KernelInv(k), NEW t \in Thread,
           k.stat[t] = "suspend", ~Linked(k, t), t \notin k.timer
    PROVE  LET v == rt_schedule_insert_thread(k, t) IN
           /\ KernelInv(v)
           /\ v.stat = [k.stat EXCEPT ![t] = "ready"]
           /\ v.timer = k.timer /\ v.current = k.current /\ v.lock_nest = k.lock_nest
           /\ v.priority = k.priority /\ v.error = k.error
           /\ On(v, k.priority[t]) = On(k, k.priority[t]) \cup {t}
           /\ \A l \in ListId \ {k.priority[t]} : v.lists[l] = k.lists[l]
<1> DEFINE p == k.priority[t]
           u == rt_list_insert_before(k, p, t)
           v == rt_schedule_insert_thread(k, t)
<1>1. Formed(k) /\ p \in Priority /\ p \in ListId /\ t \notin On(k, p)
  BY ListIdFacts DEF KernelInv, NodesLinkedOnce, Formed, KernelState, Linked
<1>2. /\ Formed(u) /\ SameThreads(k, u) /\ u.group = k.group
      /\ On(u, p) = On(k, p) \cup {t}
      /\ u.lists[p] # << >>
      /\ \A m \in ListId \ {p} : On(u, m) = On(k, m) /\ u.lists[m] = k.lists[m]
  BY <1>1, InsertBeforeEffect
<1>3. k.mask[t] = {p}
  BY DEF KernelInv, MaskExact
<1>4. v = [u EXCEPT !.stat[t] = "ready", !.group = @ \cup k.mask[t]]
  BY DEF rt_schedule_insert_thread
<1> HIDE DEF u, v, p
<1>5. /\ v \in KernelState
      /\ v.stat = [k.stat EXCEPT ![t] = "ready"] /\ v.group = k.group \cup {p}
      /\ v.lists = u.lists /\ v.timer = k.timer /\ v.priority = k.priority
      /\ v.mask = k.mask /\ v.error = k.error /\ v.current = k.current
      /\ v.lock_nest = k.lock_nest
  BY <1>1, <1>2, <1>3, <1>4, ZenonT(60) DEF Formed, SameThreads, KernelState, Stat
<1>6. \A l \in ListId : On(v, l) = On(u, l) /\ IsInjective(v.lists[l])
  BY <1>2, <1>5 DEF Formed, On
<1>7. NodesLinkedOnce(v)
  <2>1. \A l \in ListId : t \notin On(k, l)
    BY DEF Linked
  <2>2. QED BY <1>2, <1>6, <2>1 DEF KernelInv, NodesLinkedOnce
<1>8. StatTellsList(v)
  <2> SUFFICES ASSUME NEW s \in Thread
               PROVE  /\ \A q \in Priority :
                            s \in On(v, q) <=> v.stat[s] = "ready" /\ v.priority[s] = q
                      /\ \A w \in WaitList : s \in On(v, w) => v.stat[s] = "suspend"
                      /\ s \in On(v, Defunct) => v.stat[s] = "close"
    BY DEF StatTellsList
  <2>1. v.stat[s] = IF s = t THEN "ready" ELSE k.stat[s]
    BY <1>5 DEF KernelInv, KernelState
  <2>2. /\ \A q \in Priority :
              s \in On(k, q) <=> k.stat[s] = "ready" /\ k.priority[s] = q
        /\ \A w \in WaitList : s \in On(k, w) => k.stat[s] = "suspend"
        /\ s \in On(k, Defunct) => k.stat[s] = "close"
        /\ \A l \in ListId : t \notin On(k, l)
    BY DEF KernelInv, StatTellsList, Linked
  <2>3. QED BY <1>1, <1>2, <1>5, <1>6, <2>1, <2>2, ListIdFacts DEF p
<1>9. BitmapExact(v)
  <2>1. \A q \in Priority : On(v, q) # {} <=> q = p \/ On(k, q) # {}
    BY <1>1, <1>2, <1>6, ListIdFacts
  <2>2. k.group = {q \in Priority : On(k, q) # {}}
    BY DEF KernelInv, BitmapExact
  <2>3. QED BY <1>1, <1>5, <2>1, <2>2 DEF BitmapExact
<1>10. MaskExact(v)
  BY <1>3, <1>5 DEF KernelInv, MaskExact, KernelState, p
<1>11. TimersOfSuspended(v)
  BY <1>5 DEF KernelInv, TimersOfSuspended, KernelState
<1>12. /\ On(v, p) = On(k, p) \cup {t}
       /\ \A l \in ListId \ {p} : v.lists[l] = k.lists[l]
  BY <1>1, <1>2, <1>5, <1>6
<1>13. QED BY <1>5, <1>7, <1>8, <1>9, <1>10, <1>11, <1>12 DEF KernelInv, v, p

\* rt_schedule_remove_thread clears the bit of the queue it emptied.
LEMMA ScheduleRemoveEffect ==
    ASSUME NEW k, Formed(k), BitmapExact(k), NEW t \in Thread,
           k.mask[t] = {k.priority[t]},
           \A p \in Priority : t \in On(k, p) => p = k.priority[t]
    PROVE  LET v == rt_schedule_remove_thread(k, t) IN
           /\ Formed(v) /\ SameThreads(k, v) /\ BitmapExact(v)
           /\ \A l \in ListId : On(v, l) = On(k, l) \ {t}
           /\ \A l \in ListId : t \notin On(k, l) => v.lists[l] = k.lists[l]
<1> DEFINE p == k.priority[t]
           u == rt_list_remove(k, t)
           v == rt_schedule_remove_thread(k, t)
<1>1. p \in Priority /\ p \in ListId
  BY ListIdFacts DEF Formed, KernelState
<1>2. /\ Formed(u) /\ SameThreads(k, u) /\ u.group = k.group
      /\ \A l \in ListId : On(u, l) = On(k, l) \ {t}
      /\ \A l \in ListId : t \notin On(k, l) => u.lists[l] = k.lists[l]
  BY ListRemoveEffect
<1>3. u.lists[p] = << >> <=> On(u, p) = {}
  <2>1. u.lists[p] \in Seq(Thread)
    BY <1>1, <1>2 DEF Formed, KernelState
  <2>2. QED BY <2>1, EmptyLemma DEF On
<1>4. v = [u EXCEPT !.group = IF u.lists[p] = << >> THEN @ \ {p} ELSE @]
  BY DEF rt_schedule_remove_thread
<1> HIDE DEF p, u, v
<1>5. /\ v \in KernelState /\ SameThreads(k, v) /\ v.lists = u.lists
      /\ v.group = IF On(u, p) = {} THEN k.group \ {p} ELSE k.group
  BY <1>2, <1>3, <1>4, ZenonT(60) DEF Formed, SameThreads, KernelState
<1>6. \A l \in ListId : On(v, l) = On(u, l) /\ IsInjective(v.lists[l])
  BY <1>2, <1>5 DEF Formed, On
<1>7. BitmapExact(v)
  <2>1. \A q \in Priority : q # p => (On(v, q) # {} <=> On(k, q) # {})
    BY <1>2, <1>6, ListIdFacts DEF p
  <2>2. On(v, p) = On(u, p) /\ (On(u, p) # {} => On(k, p) # {})
    BY <1>1, <1>2, <1>6
  <2>3. k.group = {q \in Priority : On(k, q) # {}}
    BY DEF BitmapExact
  <2>4. ASSUME NEW q PROVE q \in v.group <=> q \in Priority /\ On(v, q) # {}
    BY <1>1, <1>5, <2>1, <2>2, <2>3
  <2>5. QED BY <2>4 DEF BitmapExact
<1>8. QED BY <1>2, <1>5, <1>6, <1>7 DEF Formed, v

\* Taking a thread that is ready or suspended out of its ring, and giving it
\* the stat that goes with being in none.
LEMMA DetachInv ==
    ASSUME NEW k, KernelInv(k), NEW v, NEW t \in Thread, NEW s \in {"suspend", "close"},
           k.stat[t] \in {"ready", "suspend"},
           Formed(v), BitmapExact(v),
           v.stat = [k.stat EXCEPT ![t] = s], v.timer = k.timer \ {t},
           v.priority = k.priority, v.mask = k.mask,
           \A l \in ListId : On(v, l) = On(k, l) \ {t}
    PROVE  KernelInv(v) /\ ~Linked(v, t) /\ t \notin v.timer
<1>1. \A x \in Thread : v.stat[x] = IF x = t THEN s ELSE k.stat[x]
  BY DEF KernelInv, KernelState
<1>2. NodesLinkedOnce(v)
  BY DEF KernelInv, NodesLinkedOnce, Formed
<1>3. StatTellsList(v)
  BY <1>1, ListIdFacts DEF KernelInv, StatTellsList
<1>4. MaskExact(v)
  BY <1>1 DEF KernelInv, MaskExact
<1>5. TimersOfSuspended(v)
  BY <1>1 DEF KernelInv, TimersOfSuspended, KernelState
<1>6. QED BY <1>2, <1>3, <1>4, <1>5 DEF KernelInv, Formed, Linked

\* rt_thread_suspend of a ready thread.
LEMMA SuspendInv ==
    ASSUME NEW k, KernelInv(k), NEW t \in Thread, k.stat[t] = "ready"
    PROVE  LET v == rt_thread_suspend(k, t) IN
           /\ KernelInv(v) /\ ~Linked(v, t) /\ t \notin v.timer
           /\ v.stat = [k.stat EXCEPT ![t] = "suspend"]
           /\ v.timer = k.timer \ {t} /\ v.priority = k.priority /\ v.error = k.error
           /\ v.current = k.current /\ v.lock_nest = k.lock_nest
           /\ \A l \in ListId : On(v, l) = On(k, l) \ {t}
           /\ \A l \in ListId : t \notin On(k, l) => v.lists[l] = k.lists[l]
<1> DEFINE j == [k EXCEPT !.stat[t] = "suspend"]
           r == rt_schedule_remove_thread(j, t)
           v == rt_thread_suspend(k, t)
<1>1. /\ j \in KernelState /\ j.lists = k.lists /\ j.group = k.group
      /\ j.stat = [k.stat EXCEPT ![t] = "suspend"] /\ j.priority = k.priority
      /\ j.mask = k.mask /\ j.timer = k.timer /\ j.current = k.current
      /\ j.lock_nest = k.lock_nest /\ j.error = k.error
  BY ZenonT(60) DEF KernelInv, KernelState, Stat
<1>2. \A l \in ListId : On(j, l) = On(k, l)
  BY <1>1 DEF On
<1>3. Formed(j) /\ BitmapExact(j)
  BY <1>1, <1>2, ListIdFacts DEF KernelInv, NodesLinkedOnce, Formed, BitmapExact
<1>4. j.mask[t] = {j.priority[t]} /\ \A p \in Priority : t \in On(j, p) => p = j.priority[t]
  BY <1>1, <1>2, ListIdFacts DEF KernelInv, MaskExact, StatTellsList
<1>5. v = [r EXCEPT !.timer = @ \ {t}]
  BY DEF rt_thread_suspend, rt_timer_stop
<1> HIDE DEF j
<1>6. /\ Formed(r) /\ SameThreads(j, r) /\ BitmapExact(r)
      /\ \A l \in ListId : On(r, l) = On(j, l) \ {t}
      /\ \A l \in ListId : t \notin On(j, l) => r.lists[l] = j.lists[l]
  BY <1>3, <1>4, ScheduleRemoveEffect
<1> HIDE DEF r, v
<1>7. /\ v \in KernelState /\ v.lists = r.lists /\ v.group = r.group
      /\ v.stat = [k.stat EXCEPT ![t] = "suspend"] /\ v.priority = k.priority
      /\ v.mask = k.mask /\ v.timer = k.timer \ {t} /\ v.current = k.current
      /\ v.lock_nest = k.lock_nest /\ v.error = k.error
  BY <1>1, <1>5, <1>6, ZenonT(60) DEF Formed, SameThreads, KernelState
<1>8. /\ \A l \in ListId : On(v, l) = On(k, l) \ {t}
      /\ \A l \in ListId : t \notin On(k, l) => v.lists[l] = k.lists[l]
      /\ \A l \in ListId : On(v, l) = On(r, l)
  BY <1>1, <1>2, <1>6, <1>7 DEF On
<1>9. Formed(v) /\ BitmapExact(v)
  BY <1>6, <1>7, <1>8, ListIdFacts DEF Formed, BitmapExact
<1>10. KernelInv(v) /\ ~Linked(v, t) /\ t \notin v.timer
  BY <1>7, <1>8, <1>9, DetachInv, ZenonT(60)
<1>11. QED BY <1>7, <1>8, <1>10 DEF v

\* The first section of rt_thread_resume: off every ring, timer stopped.
LEMMA UnlinkInv ==
    ASSUME NEW k, KernelInv(k), NEW t \in Thread, k.stat[t] = "suspend"
    PROVE  LET v == rt_timer_stop(rt_list_remove(k, t), t) IN
           /\ KernelInv(v) /\ ~Linked(v, t) /\ t \notin v.timer
           /\ v.stat = k.stat /\ v.timer = k.timer \ {t} /\ v.priority = k.priority
           /\ v.error = k.error /\ v.current = k.current /\ v.lock_nest = k.lock_nest
           /\ \A l \in ListId : On(v, l) = On(k, l) \ {t}
           /\ \A l \in ListId : t \notin On(k, l) => v.lists[l] = k.lists[l]
           /\ \A p \in Priority : v.lists[p] = k.lists[p]
<1> DEFINE u == rt_list_remove(k, t)
           v == rt_timer_stop(u, t)
<1>1. Formed(k)
  BY DEF KernelInv, NodesLinkedOnce, Formed
<1>2. /\ Formed(u) /\ SameThreads(k, u) /\ u.group = k.group
      /\ \A l \in ListId : On(u, l) = On(k, l) \ {t}
      /\ \A l \in ListId : t \notin On(k, l) => u.lists[l] = k.lists[l]
  BY <1>1, ListRemoveEffect
<1> HIDE DEF u
<1>3. /\ v \in KernelState /\ v.lists = u.lists /\ v.group = k.group
      /\ v.stat = k.stat /\ v.priority = k.priority /\ v.mask = k.mask
      /\ v.timer = k.timer \ {t} /\ v.error = k.error /\ v.current = k.current
      /\ v.lock_nest = k.lock_nest
  BY <1>2, ZenonT(60) DEF rt_timer_stop, Formed, SameThreads, KernelState
<1> HIDE DEF v
<1>4. \A l \in ListId : On(v, l) = On(k, l) \ {t} /\ IsInjective(v.lists[l])
  BY <1>2, <1>3 DEF Formed, On
<1>5. \A p \in Priority : t \notin On(k, p)
  BY ListIdFacts DEF KernelInv, StatTellsList
<1>6. BitmapExact(v)
  BY <1>3, <1>4, <1>5, ListIdFacts DEF KernelInv, BitmapExact
<1>7. v.stat = [k.stat EXCEPT ![t] = "suspend"]
  BY <1>3 DEF KernelInv, KernelState
<1>8. KernelInv(v) /\ ~Linked(v, t) /\ t \notin v.timer
  BY <1>3, <1>4, <1>6, <1>7, DetachInv, ZenonT(60) DEF Formed
<1>9. QED BY <1>2, <1>3, <1>4, <1>5, <1>8, ListIdFacts DEF u, v

\* rt_thread_resume with interrupts disabled around it.
LEMMA ResumeInv ==
    ASSUME NEW k, KernelInv(k), NEW t \in Thread, k.stat[t] = "suspend"
    PROVE  LET v == rt_thread_resume(k, t) IN
           /\ KernelInv(v)
           /\ v.stat = [k.stat EXCEPT ![t] = "ready"]
           /\ v.timer = k.timer \ {t} /\ v.priority = k.priority /\ v.error = k.error
           /\ v.current = k.current /\ v.lock_nest = k.lock_nest
           /\ \A l \in ListId \ Priority : On(v, l) = On(k, l) \ {t}
<1> DEFINE u == rt_timer_stop(rt_list_remove(k, t), t)
           v == rt_schedule_insert_thread(u, t)
<1>1. /\ KernelInv(u) /\ ~Linked(u, t) /\ t \notin u.timer
      /\ u.stat = k.stat /\ u.timer = k.timer \ {t} /\ u.priority = k.priority
      /\ u.error = k.error /\ u.current = k.current /\ u.lock_nest = k.lock_nest
      /\ \A l \in ListId : On(u, l) = On(k, l) \ {t}
  BY UnlinkInv
<1>2. rt_thread_resume(k, t) = v
  BY DEF rt_thread_resume
<1> HIDE DEF u
<1>3. /\ KernelInv(v) /\ v.stat = [u.stat EXCEPT ![t] = "ready"]
      /\ v.timer = u.timer /\ v.current = u.current /\ v.lock_nest = u.lock_nest
      /\ v.priority = u.priority /\ v.error = u.error
      /\ \A l \in ListId \ {u.priority[t]} : v.lists[l] = u.lists[l]
  BY <1>1, ScheduleInsertInv
<1>4. u.priority[t] \in Priority
  BY <1>1 DEF KernelInv, KernelState
<1> HIDE DEF v
<1>5. \A l \in ListId \ Priority : On(v, l) = On(k, l) \ {t}
  BY <1>1, <1>3, <1>4 DEF On
<1>6. QED BY <1>1, <1>2, <1>3, <1>5

\* rt_thread_timeout up to its rt_schedule.
LEMMA TimeoutInv ==
    ASSUME NEW k, KernelInv(k), NEW t \in k.timer
    PROVE  LET v == rt_schedule_insert_thread(
                      rt_list_remove([rt_timer_stop(k, t) EXCEPT !.error[t] = "ETIMEOUT"], t), t)
           IN  /\ KernelInv(v)
               /\ v.stat = [k.stat EXCEPT ![t] = "ready"]
               /\ v.timer = k.timer \ {t} /\ v.priority = k.priority
               /\ v.current = k.current /\ v.lock_nest = k.lock_nest
               /\ \A l \in ListId \ Priority : On(v, l) = On(k, l) \ {t}
<1> DEFINE j == [rt_timer_stop(k, t) EXCEPT !.error[t] = "ETIMEOUT"]
           u == rt_list_remove(j, t)
           v == rt_schedule_insert_thread(u, t)
<1>1. t \in Thread /\ k.stat[t] = "suspend"
  BY DEF KernelInv, KernelState, TimersOfSuspended
<1>2. /\ j \in KernelState /\ j.lists = k.lists /\ j.group = k.group
      /\ j.stat = k.stat /\ j.priority = k.priority /\ j.mask = k.mask
      /\ j.timer = k.timer \ {t} /\ j.current = k.current /\ j.lock_nest = k.lock_nest
  BY <1>1, ZenonT(60) DEF KernelInv, KernelState, rt_timer_stop, Error
<1> HIDE DEF j
<1>3. Formed(j) /\ \A l \in ListId : On(j, l) = On(k, l)
  BY <1>2 DEF Formed, On, KernelInv, NodesLinkedOnce
<1>4. /\ Formed(u) /\ SameThreads(j, u) /\ u.group = j.group
      /\ \A l \in ListId : On(u, l) = On(j, l) \ {t}
  BY <1>1, <1>3, ListRemoveEffect
<1> HIDE DEF u
<1>5. \A p \in Priority : t \notin On(k, p)
  BY <1>1, ListIdFacts DEF KernelInv, StatTellsList
<1>6. BitmapExact(u)
  BY <1>2, <1>3, <1>4, <1>5, ListIdFacts DEF KernelInv, BitmapExact
<1>7. u.stat = [k.stat EXCEPT ![t] = "suspend"]
  BY <1>1, <1>2, <1>4 DEF KernelInv, KernelState, SameThreads
<1>8. KernelInv(u) /\ ~Linked(u, t) /\ t \notin u.timer
  <2>1. u \in KernelState /\ Formed(u) /\ u.priority = k.priority /\ u.mask = k.mask
    BY <1>2, <1>4 DEF SameThreads, Formed
  <2>2. u.timer = k.timer \ {t} /\ \A l \in ListId : On(u, l) = On(k, l) \ {t}
    BY <1>2, <1>3, <1>4 DEF SameThreads
  <2>3. QED BY <1>1, <1>4, <1>6, <1>7, <2>1, <2>2, DetachInv, ZenonT(60) DEF Formed
<1>9. /\ KernelInv(v) /\ v.stat = [u.stat EXCEPT ![t] = "ready"]
      /\ v.timer = u.timer /\ v.current = u.current /\ v.lock_nest = u.lock_nest
      /\ v.priority = u.priority
      /\ \A l \in ListId \ {u.priority[t]} : v.lists[l] = u.lists[l]
  <2>1. u.stat[t] = "suspend"
    BY <1>1, <1>2, <1>4 DEF SameThreads
  <2>2. QED BY <1>1, <1>8, <2>1, ScheduleInsertInv
<1>10. u.priority[t] \in Priority
  BY <1>1, <1>8 DEF KernelInv, KernelState
<1> HIDE DEF v
<1>11. \A l \in ListId \ Priority : On(v, l) = On(k, l) \ {t}
  BY <1>3, <1>4, <1>9, <1>10 DEF On
<1>12. QED BY <1>2, <1>4, <1>9, <1>11 DEF SameThreads, v, u, j

\* rt_schedule finds a ready thread of the highest ready priority, as long as
\* one thread is ready, and changes nothing but the current thread.
LEMMA ScheduleInv ==
    ASSUME NEW k, KernelInv(k), NEW i \in Thread, k.stat[i] = "ready"
    PROVE  LET v == rt_schedule(k) IN
           /\ KernelInv(v)
           /\ HighestReady(k) \in Thread /\ k.stat[HighestReady(k)] = "ready"
           /\ HighestReady(v) = HighestReady(k)
           /\ v.current = IF k.lock_nest = 0 THEN HighestReady(k) ELSE k.current
           /\ v.lists = k.lists /\ v.group = k.group /\ v.stat = k.stat
           /\ v.priority = k.priority /\ v.timer = k.timer /\ v.lock_nest = k.lock_nest
           /\ v.error = k.error
<1> DEFINE h == HighestReady(k)
           v == rt_schedule(k)
<1>1. k.priority[i] \in k.group
  BY DEF KernelInv, KernelState, BitmapExact, StatTellsList
<1>2. k.group \subseteq Nat /\ k.group # {}
  BY <1>1, KernelAssumption DEF KernelInv, KernelState, Priority
<1>3. Min(k.group) \in k.group
  BY <1>2, MinLemma
<1>4. Min(k.group) \in Priority /\ On(k, Min(k.group)) # {}
  BY <1>3 DEF KernelInv, BitmapExact
<1>5. k.lists[Min(k.group)] \in Seq(Thread) /\ k.lists[Min(k.group)] # << >>
  <2>1. k.lists[Min(k.group)] \in Seq(Thread)
    BY <1>4, ListIdFacts DEF KernelInv, KernelState
  <2>2. QED BY <2>1, <1>4, EmptyLemma DEF On
<1>6. h = Head(k.lists[Min(k.group)])
  BY <1>2, <1>5 DEF HighestReady
<1>7. h \in Thread /\ h \in On(k, Min(k.group))
  BY <1>5, <1>6, HeadLemma DEF On
<1>8. k.stat[h] = "ready"
  BY <1>4, <1>7 DEF KernelInv, StatTellsList
<1> HIDE DEF h
<1>9. /\ v \in KernelState
      /\ v.current = IF k.lock_nest = 0 THEN h ELSE k.current
      /\ v.lists = k.lists /\ v.group = k.group /\ v.stat = k.stat
      /\ v.priority = k.priority /\ v.mask = k.mask /\ v.timer = k.timer
      /\ v.lock_nest = k.lock_nest /\ v.error = k.error
  BY <1>7, ZenonT(60) DEF rt_schedule, KernelInv, KernelState, h
<1> HIDE DEF v
<1>10. \A l : On(v, l) = On(k, l)
  BY <1>9 DEF On
<1>11. KernelInv(v)
  BY <1>9, <1>10 DEF KernelInv, NodesLinkedOnce, StatTellsList, BitmapExact,
                     MaskExact, TimersOfSuspended
<1>12. HighestReady(v) = HighestReady(k)
  BY <1>9 DEF HighestReady
<1>13. QED BY <1>7, <1>8, <1>9, <1>11, <1>12 DEF h, v

-----------------------------------------------------------------------------

\* Changing the rings other than the ready queues: what leaves a ring is in
\* none, and only t comes into one, w, with the stat that goes with it.
LEMMA AdjustInv ==
    ASSUME NEW k, KernelInv(k), NEW v, Formed(v),
           v.stat = k.stat, v.priority = k.priority, v.mask = k.mask, v.group = k.group,
           TimersOfSuspended(v), NEW t \in Thread, NEW w \in ListId \ Priority,
           \A p \in Priority : On(v, p) = On(k, p),
           \A l \in ListId \ {w} : On(v, l) \subseteq On(k, l),
           On(v, w) \subseteq On(k, w) \cup {t},
           \/ t \notin On(v, w) \/ t \in On(k, w)
           \/ ~Linked(k, t) /\ k.stat[t] = IF w = Defunct THEN "close" ELSE "suspend"
    PROVE  KernelInv(v)
<1>1. NodesLinkedOnce(v)
  BY DEF KernelInv, NodesLinkedOnce, Formed, Linked
<1>2. StatTellsList(v)
  BY ListIdFacts DEF KernelInv, StatTellsList
<1>3. BitmapExact(v)
  BY DEF KernelInv, BitmapExact
<1>4. MaskExact(v)
  BY DEF KernelInv, MaskExact
<1>5. QED BY <1>1, <1>2, <1>3, <1>4 DEF KernelInv, Formed

\* rt_ipc_list_suspend of a ready thread, in both queueing orders.
LEMMA IpcSuspendInv ==
    ASSUME NEW k, KernelInv(k), NEW t \in Thread, k.stat[t] = "ready",
           NEW w \in WaitList, NEW flag
    PROVE  LET v == rt_ipc_list_suspend(k, w, t, flag) IN
           /\ KernelInv(v) /\ t \notin v.timer
           /\ v.stat = [k.stat EXCEPT ![t] = "suspend"]
           /\ v.timer = k.timer \ {t} /\ v.priority = k.priority /\ v.error = k.error
           /\ v.current = k.current /\ v.lock_nest = k.lock_nest
           /\ \A l \in ListId \ {w} : On(v, l) = On(k, l) \ {t}
           /\ On(v, w) = On(k, w) \cup {t}
<1> DEFINE u == rt_thread_suspend(k, t)
           q == IF flag = "FIFO" THEN Append(u.lists[w], t)
                                 ELSE InsertAt(u.lists[w], PrioPosition(u, w, t), t)
           v == rt_ipc_list_suspend(k, w, t, flag)
<1>1. /\ KernelInv(u) /\ ~Linked(u, t) /\ t \notin u.timer
      /\ u.stat = [k.stat EXCEPT ![t] = "suspend"]
      /\ u.timer = k.timer \ {t} /\ u.priority = k.priority /\ u.error = k.error
      /\ u.current = k.current /\ u.lock_nest = k.lock_nest
      /\ \A l \in ListId : On(u, l) = On(k, l) \ {t}
  BY SuspendInv
<1>2. w \in ListId /\ w \notin Priority /\ w # Defunct
  BY ListIdFacts
<1>3. v = [u EXCEPT !.lists[w] = q]
  BY DEF rt_ipc_list_suspend
<1> HIDE DEF u
<1>4. /\ u.lists[w] \in Seq(Thread) /\ IsInjective(u.lists[w]) /\ t \notin ToSet(u.lists[w])
  BY <1>1, <1>2 DEF KernelInv, KernelState, NodesLinkedOnce, Linked, On
<1>5. PrioPosition(u, w, t) \in 1 .. Len(u.lists[w]) + 1
  <2> DEFINE I == {i \in 1 .. Len(u.lists[w]) : u.priority[t] < u.priority[u.lists[w][i]]}
                    \cup {Len(u.lists[w]) + 1}
  <2>1. Len(u.lists[w]) \in Nat
    BY <1>4, LenProperties
  <2>2. I \subseteq Nat /\ I # {} /\ I \subseteq 1 .. Len(u.lists[w]) + 1
    BY <2>1
  <2>3. PrioPosition(u, w, t) = Min(I)
    BY DEF PrioPosition
  <2> HIDE DEF I
  <2>4. Min(I) \in I
    BY <2>2, MinLemma, ZenonT(60)
  <2>5. QED BY <2>2, <2>3, <2>4, ZenonT(60)
<1>6. q \in Seq(Thread) /\ IsInjective(q) /\ ToSet(q) = On(u, w) \cup {t}
  <2>1. CASE flag = "FIFO"
    BY <1>4, <2>1, AppendLemma DEF On
  <2>2. CASE flag # "FIFO"
    BY <1>4, <1>5, <2>2, InsertAtLemma DEF On
  <2>3. QED BY <2>1, <2>2
<1> HIDE DEF q, v
<1>7. /\ v \in KernelState /\ v.lists[w] = q
      /\ \A l \in ListId \ {w} : v.lists[l] = u.lists[l]
      /\ v.group = u.group /\ v.mask = u.mask /\ v.stat = u.stat /\ v.priority = u.priority
      /\ v.timer = u.timer /\ v.error = u.error /\ v.current = u.current
      /\ v.lock_nest = u.lock_nest
  BY <1>1, <1>2, <1>3, <1>6, ZenonT(60) DEF KernelInv, KernelState
<1>8. On(v, w) = On(u, w) \cup {t} /\ \A l \in ListId \ {w} : On(v, l) = On(u, l)
  BY <1>6, <1>7 DEF On
<1>9. Formed(v)
  BY <1>1, <1>6, <1>7 DEF Formed, KernelInv, NodesLinkedOnce
<1>10. TimersOfSuspended(v)
  BY <1>1, <1>7 DEF KernelInv, TimersOfSuspended
<1>11. u.stat[t] = "suspend"
  BY <1>1 DEF KernelInv, KernelState
<1>12. KernelInv(v)
  BY <1>1, <1>2, <1>7, <1>8, <1>9, <1>10, <1>11, ListIdFacts, AdjustInv
<1>13. On(v, w) = On(k, w) \cup {t} /\ \A l \in ListId \ {w} : On(v, l) = On(k, l) \ {t}
  BY <1>1, <1>2, <1>8
<1>14. QED BY <1>1, <1>7, <1>12, <1>13 DEF v

\* Starting the timer of a suspended thread.
LEMMA TimerStartInv ==
    ASSUME NEW k, KernelInv(k), NEW t \in Thread, k.stat[t] = "suspend"
    PROVE  LET v == rt_timer_start(k, t) IN
           /\ KernelInv(v) /\ v.timer = k.timer \cup {t}
           /\ v.stat = k.stat /\ v.priority = k.priority /\ v.error = k.error
           /\ v.current = k.current /\ v.lock_nest = k.lock_nest
           /\ v.lists = k.lists /\ v.group = k.group
<1> DEFINE v == rt_timer_start(k, t)
<1>1. /\ v \in KernelState /\ v.timer = k.timer \cup {t} /\ v.lists = k.lists
      /\ v.stat = k.stat /\ v.priority = k.priority /\ v.error = k.error
      /\ v.current = k.current /\ v.lock_nest = k.lock_nest
      /\ v.group = k.group /\ v.mask = k.mask
  BY ZenonT(60) DEF rt_timer_start, KernelInv, KernelState
<1> HIDE DEF v
<1>2. \A l : On(v, l) = On(k, l)
  BY <1>1 DEF On
<1>3. KernelInv(v)
  BY <1>1, <1>2 DEF KernelInv, NodesLinkedOnce, StatTellsList, BitmapExact, MaskExact,
                    TimersOfSuspended
<1>4. QED BY <1>1, <1>3 DEF v

\* rt_thread_yield of a ready thread rotates its ready queue.
LEMMA RotateInv ==
    ASSUME NEW k, KernelInv(k), NEW t \in Thread, k.stat[t] = "ready"
    PROVE  LET v == rt_list_insert_before(rt_list_remove(k, t), k.priority[t], t) IN
           /\ KernelInv(v)
           /\ SameThreads(k, v)
           /\ \A l \in ListId : On(v, l) = On(k, l)
<1> DEFINE p == k.priority[t]
           u == rt_list_remove(k, t)
           v == rt_list_insert_before(u, p, t)
<1>1. Formed(k) /\ p \in ListId /\ p \in Priority
  BY ListIdFacts DEF KernelInv, KernelState, NodesLinkedOnce, Formed
<1>2. /\ Formed(u) /\ SameThreads(k, u) /\ u.group = k.group
      /\ \A l \in ListId : On(u, l) = On(k, l) \ {t}
  BY <1>1, ListRemoveEffect
<1> HIDE DEF u
<1>3. /\ Formed(v) /\ SameThreads(u, v) /\ v.group = u.group
      /\ On(v, p) = On(u, p) \cup {t}
      /\ \A m \in ListId \ {p} : On(v, m) = On(u, m)
  BY <1>1, <1>2, InsertBeforeEffect
<1> HIDE DEF v
<1>4. t \in On(k, p) /\ \A l \in ListId \ {p} : t \notin On(k, l)
  <2>1. t \in On(k, p)
    BY <1>1 DEF KernelInv, StatTellsList, p
  <2>2. QED BY <1>1, <2>1 DEF KernelInv, NodesLinkedOnce
<1>5. \A l \in ListId : On(v, l) = On(k, l)
  BY <1>1, <1>2, <1>3, <1>4
<1>6. SameThreads(k, v) /\ v.group = k.group
  BY <1>2, <1>3 DEF SameThreads
<1>7. TimersOfSuspended(v)
  BY <1>6 DEF KernelInv, TimersOfSuspended, SameThreads
<1>8. KernelInv(v)
  <2>1. Defunct \in ListId \ Priority
    BY ListIdFacts
  <2>2. \A q \in Priority : On(v, q) = On(k, q)
    BY <1>5, ListIdFacts
  <2>3. t \notin On(v, Defunct)
    BY <1>1, <1>4, <1>5, <2>1
  <2>4. QED BY <1>3, <1>5, <1>6, <1>7, <2>1, <2>2, <2>3, AdjustInv DEF SameThreads
<1>9. QED BY <1>5, <1>6, <1>8 DEF v, u, p

\* rt_thread_exit of a ready thread, before the defunct list is looked at.
LEMMA CloseInv ==
    ASSUME NEW k, KernelInv(k), NEW t \in Thread, k.stat[t] = "ready"
    PROVE  LET v == [rt_timer_stop(rt_schedule_remove_thread(k, t), t)
                       EXCEPT !.stat[t] = "close"] IN
           /\ KernelInv(v) /\ ~Linked(v, t) /\ t \notin v.timer
           /\ v.stat = [k.stat EXCEPT ![t] = "close"]
           /\ v.timer = k.timer \ {t} /\ v.priority = k.priority
           /\ v.current = k.current /\ v.lock_nest = k.lock_nest
           /\ \A l \in ListId : On(v, l) = On(k, l) \ {t}
<1> DEFINE r == rt_schedule_remove_thread(k, t)
           v == [rt_timer_stop(r, t) EXCEPT !.stat[t] = "close"]
<1>1. /\ Formed(k) /\ BitmapExact(k) /\ k.mask[t] = {k.priority[t]}
      /\ \A p \in Priority : t \in On(k, p) => p = k.priority[t]
  BY DEF KernelInv, NodesLinkedOnce, Formed, MaskExact, StatTellsList
<1>2. /\ Formed(r) /\ SameThreads(k, r) /\ BitmapExact(r)
      /\ \A l \in ListId : On(r, l) = On(k, l) \ {t}
  BY <1>1, ScheduleRemoveEffect
<1> HIDE DEF r
<1>3. /\ v \in KernelState /\ v.lists = r.lists /\ v.group = r.group
      /\ v.stat = [k.stat EXCEPT ![t] = "close"] /\ v.timer = k.timer \ {t}
      /\ v.priority = k.priority /\ v.mask = k.mask /\ v.current = k.current
      /\ v.lock_nest = k.lock_nest
  BY <1>2, ZenonT(60) DEF Formed, SameThreads, KernelState, Stat, rt_timer_stop
<1> HIDE DEF v
<1>4. \A l \in ListId : On(v, l) = On(r, l)
  BY <1>3 DEF On
<1>5. Formed(v) /\ BitmapExact(v)
  BY <1>2, <1>3, <1>4, ListIdFacts DEF Formed, BitmapExact
<1>6. KernelInv(v) /\ ~Linked(v, t) /\ t \notin v.timer
  BY <1>2, <1>3, <1>4, <1>5, DetachInv, ZenonT(60)
<1>7. QED BY <1>2, <1>3, <1>4, <1>6 DEF v, r

\* A closed thread that is in no ring goes on the defunct list.
LEMMA DefunctInv ==
    ASSUME NEW k, KernelInv(k), NEW t \in Thread, k.stat[t] = "close", ~Linked(k, t)
    PROVE  LET v == rt_list_insert_after(k, Defunct, t) IN
           /\ KernelInv(v) /\ SameThreads(k, v)
           /\ On(v, Defunct) = On(k, Defunct) \cup {t}
           /\ \A l \in ListId \ {Defunct} : On(v, l) = On(k, l)
<1> DEFINE v == rt_list_insert_after(k, Defunct, t)
           s == k.lists[Defunct]
<1>1. Defunct \in ListId \ Priority
  BY ListIdFacts
<1>2. s \in Seq(Thread) /\ IsInjective(s) /\ t \notin ToSet(s)
  BY <1>1 DEF KernelInv, KernelState, NodesLinkedOnce, Linked, On
<1>3. /\ <<t>> \o s \in Seq(Thread) /\ IsInjective(<<t>> \o s)
      /\ ToSet(<<t>> \o s) = ToSet(s) \cup {t}
  BY <1>2, ConsLemma
<1>4. /\ v \in KernelState /\ v.lists[Defunct] = <<t>> \o s
      /\ \A l \in ListId \ {Defunct} : v.lists[l] = k.lists[l]
      /\ SameThreads(k, v) /\ v.group = k.group
  BY <1>1, <1>3, ZenonT(60) DEF rt_list_insert_after, KernelInv, KernelState, SameThreads
<1> HIDE DEF v
<1>5. /\ On(v, Defunct) = On(k, Defunct) \cup {t}
      /\ \A l \in ListId \ {Defunct} : On(v, l) = On(k, l)
  BY <1>3, <1>4 DEF On
<1>6. Formed(v)
  BY <1>3, <1>4, ZenonT(60) DEF Formed, KernelInv, NodesLinkedOnce
<1>7. TimersOfSuspended(v)
  BY <1>4 DEF KernelInv, TimersOfSuspended, SameThreads
<1>8. KernelInv(v)
  BY <1>1, <1>4, <1>5, <1>6, <1>7, ListIdFacts, AdjustInv DEF SameThreads
<1>9. QED BY <1>4, <1>5, <1>8 DEF v

\* The idle thread takes a closed thread off the defunct list.
LEMMA ReapInv ==
    ASSUME NEW k, KernelInv(k), NEW t \in Thread, k.stat[t] = "close"
    PROVE  LET v == rt_list_remove(k, t) IN
           /\ KernelInv(v) /\ SameThreads(k, v) /\ v.group = k.group /\ ~Linked(v, t)
           /\ \A l \in ListId : On(v, l) = On(k, l) \ {t}
           /\ \A p \in Priority : v.lists[p] = k.lists[p]
<1> DEFINE v == rt_list_remove(k, t)
<1>1. Formed(k)
  BY DEF KernelInv, NodesLinkedOnce, Formed
<1>2. /\ Formed(v) /\ SameThreads(k, v) /\ v.group = k.group
      /\ \A l \in ListId : On(v, l) = On(k, l) \ {t}
      /\ \A l \in ListId : t \notin On(k, l) => v.lists[l] = k.lists[l]
  BY <1>1, ListRemoveEffect
<1> HIDE DEF v
<1>3. \A p \in Priority : t \notin On(k, p)
  BY DEF KernelInv, StatTellsList
<1>4. Defunct \in ListId \ Priority /\ \A p \in Priority : p \in ListId
  BY ListIdFacts
<1>5. TimersOfSuspended(v)
  BY <1>2 DEF KernelInv, TimersOfSuspended, SameThreads
<1>6. KernelInv(v)
  <2>1. \A p \in Priority : On(v, p) = On(k, p)
    BY <1>2, <1>3, <1>4, ZenonT(60)
  <2>2. /\ \A l \in ListId \ {Defunct} : On(v, l) \subseteq On(k, l)
        /\ On(v, Defunct) \subseteq On(k, Defunct) \cup {t}
        /\ t \notin On(v, Defunct)
    BY <1>2, <1>4
  <2>3. QED BY <1>2, <1>4, <1>5, <2>1, <2>2, AdjustInv DEF SameThreads
<1>7. ~Linked(v, t)
  BY <1>2 DEF Linked
<1>8. QED BY <1>2, <1>3, <1>4, <1>6, <1>7 DEF v

\* rt_schedule looks at the ready queues and the bitmap only.
LEMMA SameReady ==
    ASSUME NEW k, KernelInv(k), NEW v, v.group = k.group,
           \A p \in Priority : v.lists[p] = k.lists[p]
    PROVE  HighestReady(v) = HighestReady(k)
<1>1. CASE k.group = {}
  BY <1>1 DEF HighestReady
<1>2. CASE k.group # {}
  <2>1. k.group \subseteq Nat /\ k.group \subseteq Priority
    BY KernelAssumption DEF KernelInv, KernelState, Priority
  <2>2. Min(k.group) \in Priority
    BY <1>2, <2>1, MinLemma
  <2>3. QED BY <2>2 DEF HighestReady
<1>3. QED BY <1>1, <1>2

\* A thread that is in no ring and has no timer changes its stat and its
\* priority without being ready before or after.
FreeChange(k, v, t) ==
    /\ ~Linked(k, t) /\ t \notin k.timer /\ k.stat[t] # "ready"
    /\ v \in KernelState /\ v.lists = k.lists /\ v.group = k.group /\ v.timer = k.timer
    /\ \A x \in Thread \ {t} : /\ v.stat[x] = k.stat[x]
                              /\ v.priority[x] = k.priority[x] /\ v.mask[x] = k.mask[x]
    /\ v.stat[t] \in {"none", "init", "suspend"}
    /\ v.stat[t] = "suspend" => v.mask[t] = {v.priority[t]}

\* Such a change keeps the invariant: rt_thread_create, rt_thread_startup and
\* the release of a thread object by the idle thread.
LEMMA FreeStatInv ==
    ASSUME NEW k, KernelInv(k), NEW v, NEW t \in Thread, FreeChange(k, v, t)
    PROVE  KernelInv(v)
<1>1. \A l : On(v, l) = On(k, l)
  BY DEF On, FreeChange
<1>2. \A x \in Thread : x # t => v.stat[x] = k.stat[x]
  BY DEF FreeChange
<1>3. NodesLinkedOnce(v)
  BY <1>1 DEF KernelInv, NodesLinkedOnce, FreeChange
<1>4. StatTellsList(v)
  BY <1>1, <1>2, ListIdFacts DEF KernelInv, StatTellsList, Linked, FreeChange
<1>5. BitmapExact(v)
  BY <1>1 DEF KernelInv, BitmapExact, FreeChange
<1>6. MaskExact(v)
  BY <1>2 DEF KernelInv, MaskExact, FreeChange
<1>7. TimersOfSuspended(v)
  BY <1>2 DEF KernelInv, TimersOfSuspended, KernelState, FreeChange
<1>8. QED BY <1>3, <1>4, <1>5, <1>6, <1>7 DEF KernelInv, FreeChange

=============================================================================
