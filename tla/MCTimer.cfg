CONSTANTS
    Timer = {a, b, c}
    NoTimer = NoTimer
    TickMod = 16
    InitTick = {1, 3}
    Delay = 2
    CallbackOps = {"none", "stop"}
SYMMETRY Symmetry
SPECIFICATION Spec
INVARIANTS NoneOverdue
