CONSTANTS
    t1 = t1
    t2 = t2
    t3 = t3
    q1 = q1
    q2 = q2
    mail1 = mail1
    mail2 = mail2
    m1 = m1
    m2 = m2
    Nothing = Nothing
    NoBuffer = NoBuffer
    Thread = {idle, t1, t2, t3}
    Idle = idle
    NoThread = NoThread
    WaitList = {q1, q2}
    Defunct = Defunct
    PriorityMax = 4
    BasePriority <- Shared
    Class = {"semaphore", "mutex", "event", "mailbox", "messagequeue", "mempool", "completion", "dataqueue"}
    MutexQueues = {q1}
    QuietDetach = TRUE
    Nested = FALSE
    DetachHeld = FALSE
    TimedWait = FALSE
    Wraps = FALSE
SPECIFICATION Spec
INVARIANTS NobodyForgotten BuffersConserved OwnedByGrant OriginalPriorityRestored NoInversion
PROPERTIES HighestServedFirst  DeliversInOrder
