------------------------------- MODULE MCIpc --------------------------------
(***************************************************************************)
(* The IPC objects on small instances: a behaviour starts with an object   *)
(* of one class and stays with it.  The variables of the class modules     *)
(* share obj (the object), local (of the calls in progress), hist (for the *)
(* properties) and valid.                                                  *)
(***************************************************************************)
EXTENDS Core

CONSTANTS t1, t2, t3, q1, q2, mail1, mail2, m1, m2, Nothing, NoBuffer,
          Class,                                        \* the classes of this run
          QuietDetach, Nested, DetachHeld, TimedWait, Wraps, MutexQueues

VARIABLES class, obj, local, hist, valid

vars == <<k, pc, class, obj, local, hist, valid>>

Flag == "PRIO"

\* Two threads of the same priority and one above them.
Shared == [t \in Thread |-> IF t = Idle THEN 3 ELSE IF t = t3 THEN 0 ELSE 1]

\* A priority of its own for each thread.
Distinct == [t \in Thread |-> CASE t = t1 -> 2 [] t = t2 -> 1 [] t = t3 -> 0 [] OTHER -> 3]

\* Two threads.
Pair == {Idle, t1, t3}
PairPriority == [t \in Pair |-> Shared[t]]

Sem == INSTANCE Semaphore WITH
    Sem <- q1, InitValue <- 0, SemMax <- 2, value <- obj
Mtx == INSTANCE Mutex WITH
    BasePriority <- Distinct, WaitList <- MutexQueues, HoldMax <- 2, mutex <- obj, want <- local
Evt == INSTANCE Event WITH
    Thread <- Pair, BasePriority <- PairPriority, Bit <- {1, 2}, Queue <- q1, event <- obj
Mbx == INSTANCE Mailbox WITH
    Thread <- Pair, BasePriority <- PairPriority, Mail <- {mail1, mail2}, Size <- 2,
    Receivers <- q1, Senders <- q2, mb <- obj, value <- hist
Msq == INSTANCE MessageQueue WITH
    Thread <- Pair, BasePriority <- PairPriority, Mail <- {mail1, mail2}, Buffer <- {m1, m2},
    Receivers <- q1, mq <- obj, taken <- hist
Mpl == INSTANCE MemPool WITH
    Piece <- {m1}, Queue <- q1, mp <- obj, own <- hist, left <- local
Cpl == INSTANCE Completion WITH Queue <- q1, flag <- obj, pending <- hist
Daq == INSTANCE DataQueue WITH
    Thread <- Pair, BasePriority <- PairPriority, Mail <- {mail1, mail2}, Size <- 2, Lwm <- 1,
    IndexBits <- 3, Pushers <- q1, Poppers <- q2, dq <- obj, taken <- hist

None == "none"

Init ==
    /\ class \in Class
    /\ \/ class = "semaphore" /\ Sem!Init /\ local = None /\ hist = None
       \/ class = "mutex" /\ Mtx!Init /\ hist = None /\ valid = None
       \/ class = "event" /\ Evt!Init /\ hist = None /\ valid = None
       \/ class = "mailbox" /\ Mbx!Init
       \/ class = "messagequeue" /\ Msq!Init /\ valid = None
       \/ class = "mempool" /\ Mpl!Init /\ valid = None
       \/ class = "completion" /\ Cpl!Init /\ local = None /\ valid = None
       \/ class = "dataqueue" /\ Daq!Init /\ valid = None

Next ==
    /\ UNCHANGED class
    /\ \/ class = "semaphore" /\ Sem!Next /\ UNCHANGED <<local, hist>>
       \/ class = "mutex" /\ Mtx!Next /\ UNCHANGED <<hist, valid>>
       \/ class = "event" /\ Evt!Next /\ UNCHANGED <<hist, valid>>
       \/ class = "mailbox" /\ Mbx!Next
       \/ class = "messagequeue" /\ Msq!Next /\ UNCHANGED valid
       \/ class = "mempool" /\ Mpl!Next /\ UNCHANGED valid
       \/ class = "completion" /\ Cpl!Next /\ UNCHANGED <<local, valid>>
       \/ class = "dataqueue" /\ Daq!Next /\ UNCHANGED valid

Spec == Init /\ [][Next]_vars

-----------------------------------------------------------------------------
(* Properties *)

\* No wakeup is lost in any IPC object, whatever threads, interrupts, timeouts,
\* resets and detaches do between the sections of its calls: nobody waits for
\* a token, a message, a place, a block or a bit that is there, unless a
\* thread that was resumed for it is on its way; a completion is not
\* forgotten; and nobody is left waiting when a detach has returned.
NobodyForgotten ==
    CASE class = "semaphore"    -> Sem!NoTokenWhileWaiting
      [] class = "mutex"        -> Mtx!NoWaiterForgotten
      [] class = "event"        -> Evt!NoWaiterForgotten
      [] class = "mailbox"      -> Mbx!NoReceiverForgotten /\ Mbx!NoSenderForgotten
      [] class = "messagequeue" -> Msq!NoWaiterForgotten
      [] class = "mempool"      -> Mpl!NoWaiterForgotten
      [] class = "completion"   -> Cpl!NoWaiterForgotten
      [] class = "dataqueue"    -> Daq!NoWaiterForgotten

Queues == {q1, q2} \cap DOMAIN k.lists

Prioritised == {"semaphore", "mutex", "mailbox", "messagequeue"}

Served(q) == {t \in On(k, q) \ On(k', q) : k'.error[t] = "EOK"}

\* Objects made with RT_IPC_FLAG_PRIO serve the waiter of the highest
\* priority, whoever joined or left the queue by a timeout before.
HighestServedFirst ==
    [][ (class \in Prioritised) =>
          \A q \in Queues : \A t \in Served(q), u \in On(k', q) :
              k.priority[t] <= k.priority[u] ]_vars


\* Mailbox, message queue and data queue are bounded first-in first-out queues
\* for all their senders and receivers, blocking, timed, non-blocking or in
\* interrupts, but for urgent messages.
DeliversInOrder ==
    /\ class = "mailbox" => Mbx!Abstract!Init
    /\ class = "messagequeue" => Msq!Abstract!Init
    /\ class = "dataqueue" => Daq!Abstract!Init
    /\ [][/\ class = "mailbox" => [Mbx!Abstract!Next]_(Mbx!Abstract!vars)
          /\ class = "messagequeue" => [Msq!Abstract!Next]_(Msq!Abstract!vars)
          /\ class = "dataqueue" => [Daq!Abstract!Next]_(Daq!Abstract!vars)]_vars

\* Every buffer of a message queue and every block of a memory pool is in one
\* place, free, queued or in one caller's hands, also while it is copied with
\* interrupts enabled; and the counters agree with the lists.
BuffersConserved ==
    /\ class = "messagequeue" => Msq!BuffersConserved
    /\ class = "mempool" => Mpl!BlocksConserved

\* A mutex is available, without owner and waiters, or taken, handed over
\* without a moment in which a third thread could take it; rt_mutex_take
\* returns RT_EOK exactly to the owner, however close a timeout came.
OwnedByGrant == class = "mutex" => Mtx!AvailableOrOwned /\ Mtx!GrantMeansOwner

\* A thread that owns no mutex has the priority it was created with: what
\* rt_mutex_take lent to it rt_mutex_release has taken back.
OriginalPriorityRestored == class = "mutex" => Mtx!OriginalPriorityRestored

\* While the owner of the mutex could run, no thread of a lower priority than
\* one of the waiters has the core.
NoInversion == class = "mutex" => Mtx!NoInversion

\* rt_ipc_list_resume_all resumes a thread that waits: its list is not empty
\* when the body of its loop takes the first thread of it.
ResumesAWaiter == class = "semaphore" => Sem!ResumesAWaiter

=============================================================================
