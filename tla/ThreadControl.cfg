CONSTANTS
    Thread = {idle, t1, t2}
    Idle = idle
    NoThread = none
    WaitList = {q}
    Defunct = defunct
    PriorityMax = 2
    Static = {idle, t2}
    HasCleanup = {t2}
    InitThread = t1
    InitPriority = 0
    InitTick = 1
    MaxNest = 1
    Exclusive = TRUE
SPECIFICATION ControlSpec
INVARIANTS ControlKeepsQueues
 
