CONSTANTS
    Thread = {idle, t1, t2}
    Idle = idle
    NoThread = none
    WaitList = {q}
    Defunct = defunct
    PriorityMax = 2
    Static = {idle, t2}
    HasCleanup = {}
    InitThread = t1
    InitPriority = 0
    InitTick = 2
    MaxNest = 2
SPECIFICATION FairSpec
INVARIANTS LinkedOnce ReadyQueueExact HighestRuns FreedUnreferenced
PROPERTIES LockedIsNotPreempted RoundRobin
