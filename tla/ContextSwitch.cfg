CONSTANTS
    Thread = {t1, t2, t3}
    NoThread = NoThread
    Value = {1, 2}
    Start = 1
SPECIFICATION FairSpec
INVARIANTS ContextKept CurrentHasProcessor
PROPERTIES SwitchHappens
