CONSTANTS
    a = a
    b = b
    Queues = {a}
    Pipeline = 2
    OpTableSize = 2
    PtrMod = 4
    Size = 2
    None = None
    Regs = {"tail", "arm", "active", "head"}
    Readers = {a}
    Slow = {"resp"}
    Posted = TRUE
SPECIFICATION Safety
INVARIANTS SlotsFollowHead AnswersKept
PROPERTY Atomicity
