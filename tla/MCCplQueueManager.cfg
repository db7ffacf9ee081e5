CONSTANTS
    a = a
    b = b
    Queues = {a, b}
    Pipeline = 2
    OpTableSize = 2
    PtrMod = 2
    Size = 1
    None = None
    Regs = {"tail", "arm"}
    Readers = {a}
    Slow = {"resp"}
    Posted = FALSE
SPECIFICATION Spec
INVARIANTS TypeOK Coherent
PROPERTIES Atomicity NothingStarves
