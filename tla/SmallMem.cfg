CONSTANTS
    MemSize = 136
    Request = {1, 24, 40}
    Resize = {0, 8, 40}
    None = None
SPECIFICATION Spec
INVARIANTS BlocksTileHeap OwnersDisjoint
